---- MODULE Spec2Model ----
(***************************************************************************)
(* Model of envconfig's source-merging Set: options, source loading and    *)
(* merging, the tag-handler chain that walks the config struct, text       *)
(* replacement and type coercion, over one or more calls of Set on the     *)
(* same record (specification Spec); and of the earlier Set(filename,      *)
(* config), which writes the file to the process environment and populates *)
(* the record from the environment (specification SpecEnv).                *)
(*                                                                         *)
(* Go strings are modelled as sequences of one-character strings, so that  *)
(* splitting, trimming, concatenation and parsing are computed, not        *)
(* assumed.  Paths in the model contain no "." or ".." elements and no     *)
(* doubled separators (filepath.Clean leaves such paths alone).            *)
(***************************************************************************)
EXTENDS Integers, Sequences, FiniteSets, TLC

VARIABLES
    fields,     \* the struct type of the config record (field descriptors)
    config,     \* the config record: leaf path -> value
    config0,    \* the config record as it was when Set was called
    opts0,      \* the options Set was called with
    arg,        \* what is passed to Set as config
    returned,   \* the Set calls that have returned: their options and error
    fs,         \* file system: path -> lines of the file
    environ,    \* os.Environ(): sequence of "KEY=VALUE" strings
    environ0,   \* the process environment as it was when Set was called
    filename,   \* the filename passed to the environment-writing Set
    flagSet,    \* flag.CommandLine after flag.Parse(): set of [name, value, actual]
    opts,       \* the options passed to Set that have not been applied yet
    s,          \* the settings object of the running Set call
    loaded,     \* number of sources of s.sources already loaded
    defaultDecoders, \* the package-level decoder table: type -> DecoderFunc
    stack,      \* call stack of populateStruct / populateNestedConfig
    err,        \* the error Set returns
    pc          \* position of the Set call

vars == <<fields, config, config0, opts0, arg, returned, fs, environ, environ0, filename, flagSet, opts, s, loaded, defaultDecoders,
          stack, err, pc>>

----------------------------------------------------------------------------
(* Bounds of the model *)

MaxFileLines == 1
MaxLongFile == 2
MaxCalls == 2
MaxEnvVars == 1
MaxFlags == 1
MaxPreset == 1

----------------------------------------------------------------------------
(* package strings / strconv / path/filepath / regexp, on character sequences *)

Drop(str, n) == SubSeq(str, n + 1, Len(str))

HasPrefix(str, p) == Len(p) <= Len(str) /\ SubSeq(str, 1, Len(p)) = p

HasSuffix(str, p) == Len(p) <= Len(str) /\ SubSeq(str, Len(str) - Len(p) + 1, Len(str)) = p

TrimPrefix(str, p) == IF HasPrefix(str, p) THEN Drop(str, Len(p)) ELSE str

TrimSuffix(str, p) == IF HasSuffix(str, p) THEN SubSeq(str, 1, Len(str) - Len(p)) ELSE str

Least(S) == CHOOSE i \in S : \A j \in S : i <= j

Greatest(S) == CHOOSE i \in S : \A j \in S : j <= i

LeastOrZero(S) == IF S = {} THEN 0 ELSE Least(S)

\* strings.Index: position (from 1) of the first occurrence of sep, 0 if none.
Index(str, sep) ==
    LeastOrZero({i \in 1..(Len(str) + 1) : HasPrefix(Drop(str, i - 1), sep)})

CutAt(str, sep, i) ==
    IF i = 0
    THEN [before |-> str, after |-> <<>>, found |-> FALSE]
    ELSE [before |-> SubSeq(str, 1, i - 1),
          after |-> Drop(str, i - 1 + Len(sep)),
          found |-> TRUE]

\* strings.Cut
Cut(str, sep) == CutAt(str, sep, Index(str, sep))

IsSpace(c) == c \in {" ", "\t"}

RECURSIVE TrimLeftSpace(_)
TrimLeftSpace(str) ==
    IF str # <<>> /\ IsSpace(Head(str)) THEN TrimLeftSpace(Tail(str)) ELSE str

RECURSIVE TrimRightSpace(_)
TrimRightSpace(str) ==
    IF str # <<>> /\ IsSpace(str[Len(str)])
    THEN TrimRightSpace(SubSeq(str, 1, Len(str) - 1))
    ELSE str

\* strings.TrimSpace
TrimSpace(str) == TrimRightSpace(TrimLeftSpace(str))

\* strings.Split with a non-empty separator
RECURSIVE Split(_, _)
RECURSIVE SplitCut(_, _)
SplitCut(c, sep) ==
    IF c.found THEN <<c.before>> \o Split(c.after, sep) ELSE <<c.before>>

Split(str, sep) == SplitCut(Cut(str, sep), sep)

\* strings.ReplaceAll with a non-empty old
RECURSIVE ReplaceAll(_, _, _)
ReplaceAll(str, old, new) ==
    IF str = <<>> THEN <<>>
    ELSE IF HasPrefix(str, old)
         THEN new \o ReplaceAll(Drop(str, Len(old)), old, new)
         ELSE <<Head(str)>> \o ReplaceAll(Tail(str), old, new)

Digits == {"0", "1", "2", "3", "4", "5", "6", "7", "8", "9"}

DigitVal(c) ==
    CASE c = "0" -> 0 [] c = "1" -> 1 [] c = "2" -> 2 [] c = "3" -> 3
      [] c = "4" -> 4 [] c = "5" -> 5 [] c = "6" -> 6 [] c = "7" -> 7
      [] c = "8" -> 8 [] c = "9" -> 9

AllDigits(str) == \A i \in 1..Len(str) : str[i] \in Digits

RECURSIVE DecVal(_)
DecVal(str) ==
    IF str = <<>> THEN 0
    ELSE 10 * DecVal(SubSeq(str, 1, Len(str) - 1)) + DigitVal(str[Len(str)])

Signed(str) == str # <<>> /\ Head(str) \in {"+", "-"}

Negative(str) == str # <<>> /\ Head(str) = "-"

Unsigned(str) == IF Signed(str) THEN Tail(str) ELSE str

AtoiDigits(body, neg) ==
    IF body = <<>> \/ ~AllDigits(body)
    THEN [ok |-> FALSE, val |-> 0]
    ELSE [ok |-> TRUE, val |-> IF neg THEN 0 - DecVal(body) ELSE DecVal(body)]

\* strconv.Atoi: optional sign, then one or more decimal digits.  The inputs of
\* the model are far shorter than the 19 digits at which int overflows.
Atoi(str) == AtoiDigits(Unsigned(str), Negative(str))

\* strconv.ParseBool
ParseBool(str) ==
    IF str \in {<<"1">>, <<"t">>, <<"T">>, <<"t","r","u","e">>, <<"T","R","U","E">>, <<"T","r","u","e">>}
    THEN [ok |-> TRUE, val |-> TRUE]
    ELSE IF str \in {<<"0">>, <<"f">>, <<"F">>, <<"f","a","l","s","e">>, <<"F","A","L","S","E">>,
                     <<"F","a","l","s","e">>}
         THEN [ok |-> TRUE, val |-> FALSE]
         ELSE [ok |-> FALSE, val |-> FALSE]

RECURSIVE StripTrailingZeros(_)
StripTrailingZeros(str) ==
    IF str # <<>> /\ str[Len(str)] = "0"
    THEN StripTrailingZeros(SubSeq(str, 1, Len(str) - 1))
    ELSE str

FloatDigits(c, neg) ==
    IF (c.before = <<>> /\ c.after = <<>>) \/ ~AllDigits(c.before) \/ ~AllDigits(c.after)
    THEN [ok |-> FALSE, val |-> [neg |-> FALSE, m |-> 0, e |-> 0]]
    ELSE [ok |-> TRUE,
          val |-> [neg |-> neg,
                   m |-> DecVal(c.before \o StripTrailingZeros(c.after)),
                   e |-> Len(StripTrailingZeros(c.after))]]

\* strconv.ParseFloat(str, 64) on strings over sign, digits and ".": the value
\* is kept exactly, as sign, mantissa and number of decimal places (the inputs
\* of the model are short enough to be told apart as float64).
ParseFloat(str) == FloatDigits(Cut(Unsigned(str), <<".">>), Negative(str))

ExtFrom(path, dots) == IF dots = {} THEN <<>> ELSE Drop(path, Greatest(dots) - 1)

\* filepath.Ext: the suffix from the final dot of the final path element.
Ext(path) ==
    ExtFrom(path, {i \in 1..Len(path) :
                      path[i] = "." /\ \A j \in i..Len(path) : path[j] # "/"})

DirUpTo(path, seps) == IF seps = {} THEN <<>> ELSE SubSeq(path, 1, Greatest(seps))

\* filepath.Split: the directory part, up to and including the final separator.
SplitDir(path) == DirUpTo(path, {i \in 1..Len(path) : path[i] = "/"})

\* textReplacementRegex = `\${[^}]+}`: the leftmost match starts at the first
\* "${" that is followed by at least one character other than "}" and then "}".
MatchAt(str, i) ==
    /\ i + 3 <= Len(str)
    /\ str[i] = "$"
    /\ str[i + 1] = "{"
    /\ str[i + 2] # "}"
    /\ \E j \in (i + 3)..Len(str) : str[j] = "}"

MatchEnd(str, i) ==
    CHOOSE j \in (i + 3)..Len(str) :
        str[j] = "}" /\ \A k \in (i + 3)..(j - 1) : str[k] # "}"

MatchFrom(str, starts) ==
    IF starts = {} THEN <<>>
    ELSE <<SubSeq(str, Least(starts), MatchEnd(str, Least(starts)))>>

\* regexp.FindStringSubmatch: the leftmost match and its (here: no) groups,
\* or nil when nothing matches.
FindStringSubmatch(str) == MatchFrom(str, {i \in 1..Len(str) : MatchAt(str, i)})

----------------------------------------------------------------------------
(* time.ParseDuration on strings over sign, digits and the letters h, m, s: *)
(* the value is kept in milliseconds.                                       *)

UnitMs(u) ==
    CASE u = <<"m", "s">> -> 1
      [] u = <<"s">> -> 1000
      [] u = <<"m">> -> 60000
      [] u = <<"h">> -> 3600000
      [] OTHER -> 0

RECURSIVE LeadingRun(_, _)
LeadingRun(str, set) ==
    IF str # <<>> /\ Head(str) \in set THEN <<Head(str)>> \o LeadingRun(Tail(str), set) ELSE <<>>

RECURSIVE LeadingUnit(_)
LeadingUnit(str) ==
    IF str # <<>> /\ Head(str) \notin (Digits \cup {"."})
    THEN <<Head(str)>> \o LeadingUnit(Tail(str))
    ELSE <<>>

RECURSIVE DurationLoop(_, _)
RECURSIVE DurationUnit(_, _, _, _)
DurationUnit(rest, acc, d, u) ==
    IF d = <<>> \/ u = <<>> \/ UnitMs(u) = 0
    THEN [ok |-> FALSE, val |-> 0]
    ELSE DurationLoop(Drop(rest, Len(u)), acc + DecVal(d) * UnitMs(u))

RECURSIVE DurationNumber(_, _, _)
DurationNumber(rest, acc, d) == DurationUnit(rest, acc, d, LeadingUnit(rest))

DurationLoop(str, acc) ==
    IF str = <<>> THEN [ok |-> TRUE, val |-> acc]
    ELSE DurationNumber(Drop(str, Len(LeadingRun(str, Digits))), acc, LeadingRun(str, Digits))

DurationSigned(r, neg) == IF neg /\ r.ok THEN [ok |-> TRUE, val |-> 0 - r.val] ELSE r

DurationBody(body, neg) ==
    IF body = <<"0">> THEN [ok |-> TRUE, val |-> 0]
    ELSE IF body = <<>> THEN [ok |-> FALSE, val |-> 0]
    ELSE DurationSigned(DurationLoop(body, 0), neg)

ParseDuration(str) == DurationBody(Unsigned(str), Negative(str))

----------------------------------------------------------------------------
(* Errors: the type of the innermost error of the chain (what errors.As     *)
(* finds through every fmt.Errorf("...: %w") wrapper) and its field.        *)

NoErr == [type |-> "nil", arg |-> <<>>]

Error(t, a) == [type |-> t, arg |-> a]

IsNil(e) == e.type = "nil"

----------------------------------------------------------------------------
(* The config record.  A struct type is a sequence of field descriptors    *)
(* [name, kind, tags, fields, exported]; a field is addressed by its path, *)
(* the sequence of field indexes leading to it, and the record's value is  *)
(* a function from the paths of its non-struct fields to their values.     *)

Fld(name, kind, tags) ==
    [name |-> name, kind |-> kind, tags |-> tags, fields |-> <<>>, exported |-> TRUE]

Struct(name, tags, sub) ==
    [name |-> name, kind |-> "struct", tags |-> tags, fields |-> sub, exported |-> TRUE]

\* a field that is not exported (reflect.Value.CanSet is false)
Hidden(name, kind, tags) ==
    [name |-> name, kind |-> kind, tags |-> tags, fields |-> <<>>, exported |-> FALSE]

NoTags == [t \in {} |-> <<>>]

\* reflect.StructTag.Lookup
HasTag(field, tag) == tag \in DOMAIN field.tags

RECURSIVE FieldAt(_, _)
FieldAt(flds, path) ==
    IF Len(path) = 1 THEN flds[path[1]]
    ELSE FieldAt(flds[path[1]].fields, Tail(path))

\* reflect.Value.NumField of the struct at a path (<<>> is the record itself)
NumField(flds, path) ==
    IF path = <<>> THEN Len(flds) ELSE Len(FieldAt(flds, path).fields)

RECURSIVE LeafPaths(_, _)
LeafPaths(flds, base) ==
    UNION {IF flds[i].kind = "struct"
           THEN LeafPaths(flds[i].fields, Append(base, i))
           ELSE {Append(base, i)} : i \in 1..Len(flds)}

IsUnder(path, base) == Len(base) <= Len(path) /\ SubSeq(path, 1, Len(base)) = base

NilSlice == [nil |-> TRUE, elems |-> <<>>]

MakeSlice(elems) == [nil |-> FALSE, elems |-> elems]

ZeroFloat == [neg |-> FALSE, m |-> 0, e |-> 0]

\* the zero value of a Go type
ZeroOf(kind) ==
    CASE kind = "string" -> <<>>
      [] kind = "bool" -> FALSE
      [] kind = "float64" -> ZeroFloat
      [] kind \in {"[]string", "[]int", "[]float64"} -> NilSlice
      [] OTHER -> 0

\* reflect.Value.IsZero of the field at a path: a struct is zero when all of
\* its fields are.
IsZero(flds, cfg, path) ==
    \A p \in DOMAIN cfg : IsUnder(p, path) => cfg[p] = ZeroOf(FieldAt(flds, p).kind)

SetAt(cfg, path, val) == [cfg EXCEPT ![path] = val]

----------------------------------------------------------------------------
(* Type coercion *)

Comma == <<",">>

ConversionError(key, target) ==
    Error("FieldConversionError", [FieldName |-> key, TargetType |-> target])

Decoded(r, key, target) ==
    [val |-> r.val, err |-> IF r.ok THEN NoErr ELSE ConversionError(key, target)]

\* the DecoderFuncs of defaultDecoders, by the type they are registered for,
\* and those a caller passes to WithDecoders: one that parses an int32, one
\* that yields the length of the value, one that yields the key
Decode(dec, key, value) ==
    CASE dec = "time.Duration" -> Decoded(ParseDuration(value), key, "time.Duration")
      [] dec = "int" -> Decoded(Atoi(value), key, "int")
      [] dec = "bool" -> Decoded(ParseBool(value), key, "bool")
      [] dec = "float64" -> Decoded(ParseFloat(value), key, "float")
      [] dec = "caller" -> Decoded(Atoi(value), key, "int32")
      [] dec = "callerLen" -> [val |-> Len(value), err |-> NoErr]
      [] dec = "callerKey" -> [val |-> key, err |-> NoErr]

\* the initial content of the defaultDecoders table
builtinDecoders ==
    [k \in {"time.Duration", "int", "bool", "float64"} |-> k]

\* the parts of a slice value, each trimmed
TrimAll(values) == [i \in 1..Len(values) |-> TrimSpace(values[i])]

AtoiAll(values) == [i \in 1..Len(values) |-> Atoi(values[i])]

ParseFloatAll(values) == [i \in 1..Len(values) |-> ParseFloat(values[i])]

\* a loop that appends the parsed elements to the slice the field holds
SetParsedAppends(cfg, path, parsed, e) ==
    IF \E i \in 1..Len(parsed) : ~parsed[i].ok
    THEN [config |-> cfg, err |-> e]
    ELSE [config |-> SetAt(cfg, path,
                          MakeSlice(cfg[path].elems \o [i \in 1..Len(parsed) |-> parsed[i].val])),
          err |-> NoErr]

\* the loop of setIntSliceFieldValue and setFloatSliceFieldValue: the first
\* element that does not parse ends it, and only a full slice is assigned
SetParsed(cfg, path, parsed, e) ==
    IF \E i \in 1..Len(parsed) : ~parsed[i].ok
    THEN [config |-> cfg, err |-> e]
    ELSE [config |-> SetAt(cfg, path, MakeSlice([i \in 1..Len(parsed) |-> parsed[i].val])),
          err |-> NoErr]

\* setStringSliceFieldValue that stores the parts untrimmed
setStringSliceFieldValueUntrimmed(cfg, path, environmentValue) ==
    [config |-> SetAt(cfg, path, MakeSlice(Split(environmentValue, Comma))), err |-> NoErr]

setStringSliceFieldValue(cfg, path, environmentValue) ==
    [config |-> SetAt(cfg, path, MakeSlice(TrimAll(Split(environmentValue, Comma)))),
     err |-> NoErr]

\* a setIntSliceFieldValue that assigns the slice as far as it was filled
\* when an element does not parse
setIntSliceFieldValuePartial(cfg, path, entry) ==
    [config |-> SetAt(cfg, path,
                      MakeSlice([i \in 1..Len(Split(entry.value, Comma)) |->
                                    Atoi(TrimSpace(Split(entry.value, Comma)[i])).val])),
     err |-> SetParsed(cfg, path, AtoiAll(TrimAll(Split(entry.value, Comma))),
                       ConversionError(entry.key, "[]int")).err]

setIntSliceFieldValue(cfg, path, entry) ==
    SetParsed(cfg, path, AtoiAll(TrimAll(Split(entry.value, Comma))),
              ConversionError(entry.key, "[]int"))

setFloatSliceFieldValue(cfg, path, entry) ==
    SetParsed(cfg, path, ParseFloatAll(TrimAll(Split(entry.value, Comma))),
              ConversionError(entry.key, "[]float64"))

\* the decoder branch of setFieldValue: the decoded value is stored unless the
\* decoder failed
StoreDecoded(cfg, path, d) ==
    IF ~IsNil(d.err)
    THEN [config |-> cfg, err |-> d.err]
    ELSE [config |-> SetAt(cfg, path, d.val), err |-> NoErr]

\* the type switch of setFieldValue without its default case: a type without
\* rule is left alone and nil is returned
setFieldValueSwitchNoDefault(cfg, path, entry, kind) ==
    CASE kind = "string" -> [config |-> SetAt(cfg, path, entry.value), err |-> NoErr]
      [] kind = "[]string" -> setStringSliceFieldValue(cfg, path, entry.value)
      [] kind = "[]int" -> setIntSliceFieldValue(cfg, path, entry)
      [] kind = "[]float64" -> setFloatSliceFieldValue(cfg, path, entry)
      [] OTHER -> [config |-> cfg, err |-> NoErr]

\* the type switch of setFieldValue
setFieldValueSwitch(cfg, path, entry, kind) ==
    CASE kind = "string" -> [config |-> SetAt(cfg, path, entry.value), err |-> NoErr]
      [] kind = "[]string" -> setStringSliceFieldValue(cfg, path, entry.value)
      [] kind = "[]int" -> setIntSliceFieldValue(cfg, path, entry)
      [] kind = "[]float64" -> setFloatSliceFieldValue(cfg, path, entry)
      [] OTHER -> [config |-> cfg, err |-> Error("UnsupportedFieldTypeError", kind)]

setFieldValueOfKind(st, cfg, path, entry, kind) ==
    IF kind \in DOMAIN st.decoders
    THEN StoreDecoded(cfg, path, Decode(st.decoders[kind], entry.key, entry.value))
    ELSE setFieldValueSwitch(cfg, path, entry, kind)

\* the field types of the model whose pointer implements Setter
SetterKinds == {"Level"}

\* (*Level).Set, the method of the caller's type: it parses the value as a
\* number and stores it, or returns its own error
LevelSet(cfg, path, r) ==
    IF r.ok
    THEN [config |-> SetAt(cfg, path, r.val), err |-> NoErr]
    ELSE [config |-> cfg, err |-> Error("LevelError", <<>>)]

\* a setFieldValue that asks the decoder table before the Setter interface
setFieldValueDecoderFirst(st, flds, cfg, path, entry) ==
    IF FieldAt(flds, path).kind \in DOMAIN st.decoders
    THEN setFieldValueOfKind(st, cfg, path, entry, FieldAt(flds, path).kind)
    ELSE IF FieldAt(flds, path).kind \in SetterKinds
    THEN LevelSet(cfg, path, Atoi(entry.value))
    ELSE setFieldValueOfKind(st, cfg, path, entry, FieldAt(flds, path).kind)

\* settings.setFieldValue: the Setter interface first, then the decoder
\* table, then the type switch
setFieldValue(st, flds, cfg, path, entry) ==
    IF FieldAt(flds, path).kind \in SetterKinds
    THEN LevelSet(cfg, path, Atoi(entry.value))
    ELSE setFieldValueOfKind(st, cfg, path, entry, FieldAt(flds, path).kind)

----------------------------------------------------------------------------
(* Text replacement *)

\* map lookup: the empty string for a missing key
Lookup(src, key) == IF key \in DOMAIN src THEN src[key] ELSE <<>>

PlaceholderName(m) == TrimSuffix(TrimPrefix(m, <<"$", "{">>), <<"}">>)

\* the body of the loop of resolveReplacement, from the i-th match on
RECURSIVE resolveLoop(_, _, _, _)
RECURSIVE resolveMatch(_, _, _, _, _)
\* a loop body that scans the substituted value for placeholders again
resolveMatchRescans(src, value, match, i, replacementValue) ==
    IF replacementValue = <<>>
    THEN [value |-> <<>>, err |-> Error("ReplacementError", PlaceholderName(match[i]))]
    ELSE resolveLoop(src, ReplaceAll(value, match[i], replacementValue),
                     FindStringSubmatch(ReplaceAll(value, match[i], replacementValue)), 1)

resolveMatch(src, value, match, i, replacementValue) ==
    IF replacementValue = <<>>
    THEN [value |-> <<>>, err |-> Error("ReplacementError", PlaceholderName(match[i]))]
    ELSE resolveLoop(src, ReplaceAll(value, match[i], replacementValue), match, i + 1)

resolveLoop(src, value, match, i) ==
    IF i > Len(match) THEN [value |-> value, err |-> NoErr]
    ELSE resolveMatch(src, value, match, i, Lookup(src, PlaceholderName(match[i])))

\* settings.resolveReplacement
resolveReplacement(st, value) ==
    resolveLoop(st.source, value, FindStringSubmatch(value), 1)

----------------------------------------------------------------------------
(* The tag handlers.  A handler yields the config record after it and the *)
(* handlers it delegates to have run, the error it returns, and, when it   *)
(* calls populateNestedConfig, the prefix it passes.                       *)

Result(cfg, e) == [config |-> cfg, err |-> e, nested |-> FALSE, prefix |-> <<>>]

\* RequiredTagHandler.Handle
RequiredTagHandler(field, path, flds, cfg, st, prefix) ==
    IF /\ HasTag(field, "required")
       /\ field.tags.required \in {<<"t", "r", "u", "e">>, <<>>}
       /\ IsZero(flds, cfg, path)
    THEN Result(cfg, Error("RequiredFieldError", field.name))
    ELSE Result(cfg, NoErr)

\* DefaultTagHandler.Handle that leaves the default of the tag unused
DefaultTagHandlerSkips(field, path, flds, cfg, st, prefix) == Result(cfg, NoErr)

FromSet(r) == Result(r.config, r.err)

\* DefaultTagHandler.Handle: it returns nil on every path and never calls
\* BaseHandler.Handle, so its next handler (the RequiredTagHandler of chain)
\* does not run.
DefaultTagHandler(field, path, flds, cfg, st, prefix) ==
    IF HasTag(field, "default") /\ IsZero(flds, cfg, path)
    THEN FromSet(setFieldValue(st, flds, cfg, path,
                               [key |-> field.name, value |-> field.tags.default]))
    ELSE Result(cfg, NoErr)

\* EnvTagHandler.Handle once setFieldValue has returned: the field is as the
\* setter left it, and the next handler runs unless the setter failed
EnvAssigned(field, path, flds, cfg, st, prefix, r) ==
    IF ~IsNil(r.err) THEN Result(r.config, r.err)
    ELSE DefaultTagHandler(field, path, flds, r.config, st, prefix)

\* EnvTagHandler.Handle once the value of the key is resolved
EnvResolved(field, path, flds, cfg, st, prefix, key, rr) ==
    IF ~IsNil(rr.err) THEN Result(cfg, rr.err)
    ELSE EnvAssigned(field, path, flds, cfg, st, prefix,
                     setFieldValue(st, flds, cfg, path, [key |-> key, value |-> rr.value]))

\* EnvTagHandler.Handle
EnvTagHandler(field, path, flds, cfg, st, prefix) ==
    IF HasTag(field, "env") /\ (prefix \o field.tags.env) \in DOMAIN st.source
    THEN EnvResolved(field, path, flds, cfg, st, prefix, prefix \o field.tags.env,
                     resolveReplacement(st, st.source[prefix \o field.tags.env]))
    ELSE DefaultTagHandler(field, path, flds, cfg, st, prefix)

EmptyObject(body) ==
    /\ Len(body) >= 2
    /\ Head(body) = "{"
    /\ body[Len(body)] = "}"
    /\ TrimSpace(SubSeq(body, 2, Len(body) - 1)) = <<>>

\* json.Unmarshal of a string over "{", "}" and white space into a struct:
\* the empty object leaves the struct as it is, anything else is an error.
JSONUnmarshalOK(str) == EmptyObject(TrimSpace(str))

\* JSONTagHandler.Handle
JSONTagHandler(field, path, flds, cfg, st, prefix) ==
    IF /\ HasTag(field, "envjson")
       /\ (prefix \o field.tags.envjson) \in DOMAIN st.source
       /\ ~JSONUnmarshalOK(st.source[prefix \o field.tags.envjson])
    THEN Result(cfg, Error("JSONError", field.name))
    ELSE EnvTagHandler(field, path, flds, cfg, st, prefix)

\* PrefixTagHandler.Handle that passes the struct's own prefix alone
PrefixTagHandlerOwnPrefix(field, path, flds, cfg, st, prefix) ==
    IF field.kind = "struct" /\ HasTag(field, "prefix")
    THEN [config |-> cfg, err |-> NoErr, nested |-> TRUE, prefix |-> field.tags.prefix]
    ELSE JSONTagHandler(field, path, flds, cfg, st, prefix)

\* PrefixTagHandler.Handle, the head of chain
PrefixTagHandler(field, path, flds, cfg, st, prefix) ==
    IF field.kind = "struct" /\ HasTag(field, "prefix")
    THEN [config |-> cfg, err |-> NoErr, nested |-> TRUE, prefix |-> prefix \o field.tags.prefix]
    ELSE JSONTagHandler(field, path, flds, cfg, st, prefix)

----------------------------------------------------------------------------
(* Source readers *)

EmptyMap == [k \in {} |-> <<>>]

\* a merge in which the keys already present keep their value
MapsCopyKeepsFirst(dst, src) ==
    [k \in DOMAIN dst \cup DOMAIN src |-> IF k \in DOMAIN dst THEN dst[k] ELSE src[k]]

\* maps.Copy(dst, src)
MapsCopy(dst, src) ==
    [k \in (DOMAIN dst) \cup (DOMAIN src) |-> IF k \in DOMAIN src THEN src[k] ELSE dst[k]]

Put(m, key, value) == MapsCopy(m, [k \in {key} |-> value])

envExtension == <<".", "e", "n", "v">>

entryOf(line, c) ==
    IF ~c.found
    THEN [entry |-> [key |-> <<>>, value |-> <<>>], err |-> Error("ParseError", line)]
    ELSE [entry |-> [key |-> TrimSpace(c.before),
                     value |-> Cut(TrimSpace(c.after), <<" ", "#">>).before],
          err |-> NoErr]

\* envFileParser.parseLine
parseLine(line) == entryOf(line, Cut(line, <<"=">>))

\* the scanner loop of envFileParser.parse, from line i on
RECURSIVE parseLines(_, _, _)
RECURSIVE storeLineLenient(_, _, _, _)
\* a loop that passes over the lines that do not parse
storeLineLenient(lines, i, src, r) ==
    IF ~IsNil(r.err)
    THEN parseLines(lines, i + 1, src)
    ELSE parseLines(lines, i + 1, Put(src, r.entry.key, r.entry.value))

RECURSIVE storeLine(_, _, _, _)
storeLine(lines, i, src, r) ==
    IF ~IsNil(r.err)
    THEN [source |-> EmptyMap, err |-> r.err]
    ELSE parseLines(lines, i + 1, Put(src, r.entry.key, r.entry.value))

parseLines(lines, i, src) ==
    IF i > Len(lines) THEN [source |-> src, err |-> NoErr]
    ELSE IF lines[i] = <<>> \/ HasPrefix(lines[i], <<"#">>)
         THEN parseLines(lines, i + 1, src)
         ELSE storeLine(lines, i, src, parseLine(lines[i]))

\* envFileParser.parse
parse(files, filepath) ==
    IF filepath \notin DOMAIN files
    THEN [source |-> EmptyMap, err |-> Error("OpenFileError", filepath)]
    ELSE parseLines(files[filepath], 1, EmptyMap)

\* identifyFileParser: TRUE when the env-file parser is selected
identifyFileParser(f) == Ext(f) = envExtension

\* FileSource.Load that opens the file before it looks at the extension
FileSourceLoadOpensFirst(files, filepath) ==
    IF filepath \notin DOMAIN files
    THEN [source |-> EmptyMap, err |-> Error("OpenFileError", filepath)]
    ELSE IF ~identifyFileParser(filepath)
    THEN [source |-> EmptyMap, err |-> Error("FileTypeValidationError", filepath)]
    ELSE parse(files, filepath)

\* FileSource.Load
FileSourceLoad(files, filepath) ==
    IF ~identifyFileParser(filepath)
    THEN [source |-> EmptyMap, err |-> Error("FileTypeValidationError", filepath)]
    ELSE parse(files, filepath)

\* EnvironmentVariableSource.Load, from entry i of os.Environ() on
RECURSIVE EnvironmentLoad(_, _, _)
RECURSIVE storeVariable(_, _, _, _)
storeVariable(all, i, src, c) ==
    IF ~c.found
    THEN EnvironmentLoad(all, i + 1, src)
    ELSE EnvironmentLoad(all, i + 1, Put(src, c.before, c.after))

EnvironmentLoad(all, i, src) ==
    IF i > Len(all) THEN src ELSE storeVariable(all, i, src, Cut(all[i], <<"=">>))

\* FlagSource.Load with flag.VisitAll: every defined flag, set or not
FlagSourceLoadVisitAll(flagset) ==
    [k \in {f.name : f \in flagset} |-> (CHOOSE f \in flagset : f.name = k).value]

\* FlagSource.Load: flag.Visit calls back for the flags that have been set
FlagSourceLoad(flagset) ==
    [k \in {f.name : f \in {g \in flagset : g.actual}} |->
        (CHOOSE f \in flagset : f.actual /\ f.name = k).value]

----------------------------------------------------------------------------
(* The config records, files, environments and command lines of the model *)

\* a flat record: plain, defaulted and required fields
FlatFields ==
    <<Fld("Name", "string", [env |-> <<"K">>]),
      Fld("Port", "int", [env |-> <<"N">>, default |-> <<"7">>]),
      Fld("Req", "string", [env |-> <<"R">>, required |-> <<"t", "r", "u", "e">>]),
      Fld("Tail", "string", [env |-> <<"T">>, default |-> <<"d">>])>>

Flat ==
    [fields |-> FlatFields,
     maxlines |-> MaxFileLines,
     profile |-> {<<"K", "=", "v">>, <<"T", "=", "w">>},
     lines |-> {<<"K", "=", "f">>,
               <<"N", "=", "5">>,
               <<"R", " ", "=", " ", "r", " ", "#", " ", "x">>,
               <<"T", "=", "t">>},
     envs |-> {<<<<"K">>, <<"e">>>>,
              <<<<"P", "_", "K">>, <<"v">>>>,
              <<<<"N">>, <<"x">>>>,
              <<<<"N">>, <<"0">>>>,
              <<<<"T">>, <<"u">>>>},
     flags |-> {[name |-> <<"K">>, value |-> <<"g">>, actual |-> TRUE],
               [name |-> <<"K">>, value |-> <<"h">>, actual |-> FALSE],
               [name |-> <<"R">>, value |-> <<"q">>, actual |-> TRUE]},
     presets |-> <<1>> :> <<"p">> @@
                 <<2>> :> 9 @@
                 <<3>> :> <<"s">>,
     optsets |-> {<<>>,
                 <<[option |-> "WithFilepath", arg |-> <<"d", "/", "c", ".", "e", "n", "v">>]>>,
                 <<[option |-> "WithFilepath", arg |-> <<"d", "/", "c", ".", "t", "x", "t">>]>>,
                 <<[option |-> "WithFilepath", arg |-> <<"d", "/", "x", ".", "e", "n", "v">>]>>,
                 <<[option |-> "WithFilepath", arg |-> <<"d", "/", "c", ".", "e", "n", "v">>], [option |-> "WithActiveProfile", arg |-> <<"d", "e", "v">>]>>,
                 <<[option |-> "WithFilepath", arg |-> <<"d", "/", "c", ".", "e", "n", "v">>], [option |-> "WithActiveProfile", arg |-> <<>>]>>,
                 <<[option |-> "WithActiveProfile", arg |-> <<>>]>>,
                 <<[option |-> "WithFilepath", arg |-> <<"d", "/", "c", ".", "e", "n", "v">>], [option |-> "WithPrefix", arg |-> <<"P", "_">>]>>}]

\* records nested three deep, with leaves after each nested record
NestedFields ==
    <<Struct("Inner", [prefix |-> <<"A", "_">>],
        <<Fld("Leaf", "string", [env |-> <<"B">>]),
          Struct("Deep", [prefix |-> <<"B", "_">>],
        <<Struct("Deeper", [prefix |-> <<"C", "_">>], <<Fld("Leaf", "string", [env |-> <<"D">>])>>),
          Fld("After", "string", [env |-> <<"D">>])>>),
          Fld("Post", "string", [env |-> <<"D">>])>>),
      Fld("Top", "string", [env |-> <<"B">>])>>

Nested ==
    [fields |-> NestedFields,
     maxlines |-> MaxFileLines,
     profile |-> {},
     lines |-> {<<"A", "_", "B", "=", "1">>,
               <<"A", "_", "B", "_", "C", "_", "D", "=", "2">>,
               <<"A", "_", "D", "=", "3">>},
     envs |-> {<<<<"A", "_", "B", "_", "D">>, <<"4">>>>,
              <<<<"A", "_", "D">>, <<"5">>>>,
              <<<<"D">>, <<"x">>>>,
              <<<<"B">>, <<"6">>>>},
     flags |-> {[name |-> <<"B">>, value |-> <<"7">>, actual |-> TRUE],
               [name |-> <<"C", "_", "D">>, value |-> <<"y">>, actual |-> TRUE],
               [name |-> <<"A", "_", "B", "_", "C", "_", "D">>, value |-> <<"8">>, actual |-> TRUE],
               [name |-> <<"B", "_", "D">>, value |-> <<"z">>, actual |-> TRUE]},
     presets |-> <<1, 1>> :> <<"p">> @@
                 <<2>> :> <<"q">>,
     optsets |-> {<<>>,
                 <<[option |-> "WithFilepath", arg |-> <<"d", "/", "c", ".", "e", "n", "v">>]>>}]

\* struct fields without a prefix tag, one of them filled from JSON
LooseFields ==
    <<Fld("Name", "string", [env |-> <<"K">>]),
      Struct("Sub", NoTags, <<Fld("Leaf", "string", [env |-> <<"B">>])>>),
      Struct("In", [prefix |-> <<"A", "_">>],
        <<Struct("Bare", NoTags, <<Fld("X", "string", [env |-> <<"B">>])>>)>>),
      Struct("Doc", [envjson |-> <<"J">>], <<Fld("V", "string", [env |-> <<"V">>])>>),
      Hidden("hidden", "string", [env |-> <<"K">>]),
      Fld("Last", "string", [env |-> <<"L">>])>>

Loose ==
    [fields |-> LooseFields,
     maxlines |-> MaxFileLines,
     profile |-> {},
     lines |-> {<<"K", "=", "f">>,
               <<"B", "=", "1">>,
               <<"J", "=", "{", " ", "}">>,
               <<"J", "=", "{">>},
     envs |-> {<<<<"A", "_", "B">>, <<"2">>>>,
              <<<<"L">>, <<"e">>>>,
              <<<<"J">>, <<"{", "}">>>>},
     flags |-> {[name |-> <<"B">>, value |-> <<"3">>, actual |-> TRUE],
               [name |-> <<"L">>, value |-> <<"g">>, actual |-> TRUE]},
     presets |-> <<2, 1>> :> <<"p">>,
     optsets |-> {<<>>,
                 <<[option |-> "WithFilepath", arg |-> <<"d", "/", "c", ".", "e", "n", "v">>]>>}]

\* values with ${...} placeholders
TemplFields ==
    <<Fld("Endpoint", "string", [env |-> <<"E", "P">>]),
      Fld("Next", "string", [env |-> <<"Z">>])>>

Templ ==
    [fields |-> TemplFields,
     maxlines |-> MaxLongFile,
     profile |-> {},
     lines |-> {<<"E", "P", "=", "$", "{", "A", "}", "/", "$", "{", "B", "}">>,
               <<"E", "P", "=", "$", "{", "A", "}", "$", "{", "A", "}">>,
               <<"E", "P", "=", "$", "{", "B", "}", "-", "$", "{", "A", "}">>,
               <<"E", "P", "=", "x", "$", "{", "}", "$", "{", "A", "}">>,
               <<"Z", "=", "$", "{", "A", "}">>,
               <<"A", "=", "f">>},
     envs |-> {<<<<"A">>, <<"a">>>>,
              <<<<"A">>, <<>>>>,
              <<<<"B">>, <<"b">>>>,
              <<<<"E", "P">>, <<"$", "{", "C", "}">>>>},
     flags |-> {[name |-> <<"B">>, value |-> <<"c">>, actual |-> TRUE],
               [name |-> <<"A">>, value |-> <<"$", "{", "B", "}">>, actual |-> TRUE],
               [name |-> <<"Z">>, value |-> <<"z">>, actual |-> TRUE]},
     presets |-> <<1>> :> <<"p">>,
     optsets |-> {<<>>,
                 <<[option |-> "WithFilepath", arg |-> <<"d", "/", "c", ".", "e", "n", "v">>]>>}]

\* one field of every coerced type, and one of a type without a rule
TypedFields ==
    <<Fld("Strs", "[]string", [env |-> <<"S", "S">>]),
      Fld("Ints", "[]int", [env |-> <<"I", "S">>]),
      Fld("Floats", "[]float64", [env |-> <<"F", "S">>]),
      Fld("Small", "int32", [env |-> <<"U">>]),
      Fld("On", "bool", [env |-> <<"O", "N">>]),
      Fld("Wait", "time.Duration", [env |-> <<"W">>]),
      Fld("Rate", "float64", [env |-> <<"F">>]),
      Fld("Tiny", "int32", [env |-> <<"V">>, default |-> <<"1">>])>>

Typed ==
    [fields |-> TypedFields,
     maxlines |-> MaxFileLines,
     profile |-> {},
     lines |-> {<<"S", "S", "=", "a", ",", " ", "b", ",", ",", "c", " ">>,
               <<"I", "S", "=", "1", ",", " ", "2", ",", "3">>,
               <<"I", "S", "=", "1", ",", ",", "2">>,
               <<"F", "S", "=", "1", ".", "5", ",", " ", "2", ",", ".", "2", "5">>,
               <<"U", "=", "3">>,
               <<"W", "=", "1", "m", "3", "0", "s">>},
     envs |-> {<<<<"S", "S">>, <<>>>>,
              <<<<"I", "S">>, <<" ", "7">>>>,
              <<<<"I", "S">>, <<"1", ",", "x">>>>,
              <<<<"F", "S">>, <<"1", ",">>>>,
              <<<<"O", "N">>, <<"t", "r", "u", "e">>>>,
              <<<<"F">>, <<"-", "2", ".", "5", "0">>>>,
              <<<<"V">>, <<"2">>>>},
     flags |-> {[name |-> <<"S", "S">>, value |-> <<",">>, actual |-> TRUE],
               [name |-> <<"I", "S">>, value |-> <<"-", "4", ",", "+", "5">>, actual |-> TRUE],
               [name |-> <<"U">>, value |-> <<"1">>, actual |-> TRUE],
               [name |-> <<"O", "N">>, value |-> <<"y", "e", "s">>, actual |-> TRUE],
               [name |-> <<"W">>, value |-> <<"5">>, actual |-> TRUE]},
     presets |-> <<1>> :> MakeSlice(<<<<"p">>>>) @@
                 <<4>> :> 6,
     optsets |-> {<<>>,
                 <<[option |-> "WithFilepath", arg |-> <<"d", "/", "c", ".", "e", "n", "v">>]>>,
                 <<[option |-> "WithDecoders", arg |-> <<"int32">>]>>,
                 <<[option |-> "WithFilepath", arg |-> <<"d", "/", "c", ".", "e", "n", "v">>], [option |-> "WithDecoders", arg |-> <<"int32">>]>>}]

\* a short record read from a file of several lines, some of them comments,
\* empty or without separator
BrokenFields ==
    <<Fld("Name", "string", [env |-> <<"K">>]),
      Fld("Tail", "string", [env |-> <<"T">>, default |-> <<"d">>])>>

Broken ==
    [fields |-> BrokenFields,
     maxlines |-> MaxLongFile,
     profile |-> {},
     lines |-> {<<"K", "=", "f">>,
               <<"K", " ", "=", " ", "v", " ", " ", "#", " ", "n">>,
               <<"o", "o", "p", "s">>,
               <<"#", "K", "=", "c">>,
               <<>>},
     envs |-> {<<<<"T">>, <<"u">>>>},
     flags |-> {},
     presets |-> <<1>> :> <<"p">>,
     optsets |-> {<<[option |-> "WithFilepath", arg |-> <<"d", "/", "c", ".", "e", "n", "v">>]>>,
                 <<[option |-> "WithFilepath", arg |-> <<"d", "/", "c", ".", "e", "n", "v">>], [option |-> "WithFilepath", arg |-> <<"d", "/", "c", ".", "t", "x", "t">>]>>}]

\* a field of a caller's type that implements Setter, fields with a default
\* decoder and a built-in rule, and one of a type without any
CustomFields ==
    <<Fld("Lvl", "Level", [env |-> <<"L">>]),
      Fld("Count", "int", [env |-> <<"N">>]),
      Fld("Name", "string", [env |-> <<"K">>]),
      Fld("Odd", "uint8", [env |-> <<"U">>])>>

Custom ==
    [fields |-> CustomFields,
     maxlines |-> MaxFileLines,
     profile |-> {},
     lines |-> {},
     envs |-> {<<<<"L">>, <<"1", "2">>>>,
              <<<<"L">>, <<"h", "i">>>>,
              <<<<"N">>, <<"1", "2">>>>,
              <<<<"U">>, <<"3">>>>},
     flags |-> {[name |-> <<"K">>, value |-> <<"v">>, actual |-> TRUE],
               [name |-> <<"N">>, value |-> <<"x">>, actual |-> TRUE]},
     presets |-> <<3>> :> <<"p">>,
     optsets |-> {<<>>,
                 <<[option |-> "WithDecoders", arg |-> <<"int">>]>>,
                 <<[option |-> "WithDecoders", arg |-> <<"Level", "string">>]>>}]

ScenarioNames == {"Flat", "Nested", "Loose", "Templ", "Typed", "Broken", "Custom"}

Scenario(n) ==
    CASE n = "Flat" -> Flat
      [] n = "Nested" -> Nested
      [] n = "Loose" -> Loose
      [] n = "Templ" -> Templ
      [] n = "Typed" -> Typed
      [] n = "Broken" -> Broken
      [] n = "Custom" -> Custom

MainFile == <<"d", "/", "c", ".", "e", "n", "v">>

ProfileFile == <<"d", "/", "d", "e", "v", ".", "e", "n", "v">>

SeqsUpTo(S, n) == UNION {[1..k -> S] : k \in 0..n}

SubsetsUpTo(S, n) == {T \in SUBSET S : Cardinality(T) <= n}

RECURSIVE SetToSeq(_)
RECURSIVE SeqFrom(_, _)
SeqFrom(S, x) == <<x>> \o SetToSeq(S \ {x})

SetToSeq(S) == IF S = {} THEN <<>> ELSE SeqFrom(S, CHOOSE y \in S : TRUE)

\* no two entries of the environment have the same key
DistinctEnv(S) == \A a, b \in S : a[1] = b[1] => a = b

\* no two flags have the same name
DistinctFlags(S) == \A a, b \in S : a.name = b.name => a = b

\* the option is among those passed to Set
Uses(os, option) == \E i \in 1..Len(os) : os[i].option = option

\* the file of the model that holds lines is among the files Set is to read
UsesFile(os) == \E i \in 1..Len(os) : os[i].option = "WithFilepath" /\ os[i].arg = MainFile

\* what can be passed as config: a pointer to the record, untyped nil, the
\* record by value, a nil pointer to a record type, a pointer to an int
ConfigArgs == {"*struct", "nil", "struct", "(*struct)(nil)", "*int"}

\* reflect.ValueOf(config).Kind()
Kind(a) ==
    CASE a = "nil" -> "Invalid"
      [] a = "struct" -> "Struct"
      [] OTHER -> "Pointer"

\* reflect.ValueOf(config).Elem().Kind(), for a pointer
ElemKind(a) ==
    CASE a = "*struct" -> "Struct"
      [] a = "(*struct)(nil)" -> "Invalid"
      [] a = "*int" -> "Int"

\* a test of populateStruct that stops at the kind of config itself
InvalidConfigTypeNotPointer(a) == Kind(a) # "Pointer"

\* the test of populateStruct; Elem() is evaluated for pointers only
InvalidConfigType(a) == Kind(a) # "Pointer" \/ ElemKind(a) # "Struct"

\* the settings object as Set constructs it
NewSettings(decoders) ==
    [filepath |-> <<>>, activeProfile |-> <<>>, prefix |-> <<>>,
     source |-> EmptyMap, sources |-> <<>>, decoders |-> decoders]

Init ==
    \E n \in ScenarioNames :
    \E sc \in {Scenario(n)} :
    \E lines \in SeqsUpTo(sc.lines, sc.maxlines) :
    \E profile \in SeqsUpTo(sc.profile, MaxFileLines) :
    \E envs \in SubsetsUpTo(sc.envs, MaxEnvVars) :
    \E flags \in SubsetsUpTo(sc.flags, MaxFlags) :
    \E presets \in SubsetsUpTo(DOMAIN sc.presets, MaxPreset) :
    \E os \in sc.optsets :
        /\ DistinctEnv(envs)
        /\ DistinctFlags(flags)
        /\ ~UsesFile(os) => lines = <<>>
        /\ ~Uses(os, "WithActiveProfile") => profile = <<>>
        /\ arg \in {"*struct"} \cup (IF n = "Flat" /\ presets = {} THEN ConfigArgs ELSE {})
        /\ fields = sc.fields
        /\ config0 = [p \in LeafPaths(sc.fields, <<>>) |->
                        IF p \in presets
                        THEN sc.presets[p]
                        ELSE ZeroOf(FieldAt(sc.fields, p).kind)]
        /\ config = config0
        /\ fs = [f \in {MainFile, ProfileFile} |-> IF f = MainFile THEN lines ELSE profile]
        /\ environ = SetToSeq({e[1] \o <<"=">> \o e[2] : e \in envs})
        /\ environ0 = environ
        /\ filename = <<>>
        /\ flagSet = flags
        /\ opts = os
        /\ opts0 = os
        /\ returned = <<>>
        /\ defaultDecoders = builtinDecoders
        /\ s = NewSettings(builtinDecoders)
        /\ loaded = 0
        /\ stack = <<>>
        /\ err = NoErr
        /\ pc = "options"

----------------------------------------------------------------------------
(* Set: the options *)

\* the option returned by WithFilepath, applied by Set
WithFilepath ==
    /\ pc = "options"
    /\ opts # <<>>
    /\ Head(opts).option = "WithFilepath"
    /\ s' = [s EXCEPT !.filepath = Head(opts).arg,
                      !.sources = Append(@, [type |-> "FileSource", filepath |-> Head(opts).arg])]
    /\ opts' = Tail(opts)
    /\ UNCHANGED <<fields, config, config0, opts0, arg, returned, fs, environ, environ0, filename, flagSet, loaded, defaultDecoders,
                   stack, err, pc>>

\* the option returned by WithActiveProfile, applied by Set
WithActiveProfile ==
    /\ pc = "options"
    /\ opts # <<>>
    /\ Head(opts).option = "WithActiveProfile"
    /\ s' = [s EXCEPT !.activeProfile =
                        IF Head(opts).arg = <<>>
                        THEN <<"d", "e", "f", "a", "u", "l", "t">>
                        ELSE Head(opts).arg]
    /\ opts' = Tail(opts)
    /\ UNCHANGED <<fields, config, config0, opts0, arg, returned, fs, environ, environ0, filename, flagSet, loaded, defaultDecoders,
                   stack, err, pc>>

\* the option returned by WithPrefix, applied by Set
WithPrefix ==
    /\ pc = "options"
    /\ opts # <<>>
    /\ Head(opts).option = "WithPrefix"
    /\ s' = [s EXCEPT !.prefix = Head(opts).arg]
    /\ opts' = Tail(opts)
    /\ UNCHANGED <<fields, config, config0, opts0, arg, returned, fs, environ, environ0, filename, flagSet, loaded, defaultDecoders,
                   stack, err, pc>>

\* the decoders of a map passed to WithDecoders: the caller's function, for
\* each of the types named
CallerDecoders(types) ==
    [typ \in {types[i] : i \in 1..Len(types)} |->
        CASE typ = "int32" -> "caller"
          [] typ = "string" -> "callerKey"
          [] OTHER -> "callerLen"]

\* the option returned by WithDecoders, applied by Set.  s.decoders is the map
\* defaultDecoders itself (Set assigns the map, not a copy, and it is never
\* nil), so the entries are written to both.
WithDecoders ==
    /\ pc = "options"
    /\ opts # <<>>
    /\ Head(opts).option = "WithDecoders"
    /\ s' = [s EXCEPT !.decoders = MapsCopy(@, CallerDecoders(Head(opts).arg))]
    /\ defaultDecoders' = MapsCopy(defaultDecoders, CallerDecoders(Head(opts).arg))
    /\ opts' = Tail(opts)
    /\ UNCHANGED <<fields, config, config0, opts0, arg, returned, fs, environ, environ0, filename, flagSet, loaded,
                   stack, err, pc>>

\* the default sources in the wrong order: flags first, environment on top
DefaultSourcesFlagsFirst ==
    <<[type |-> "FlagSource", filepath |-> <<>>],
      [type |-> "EnvironmentVariableSource", filepath |-> <<>>]>>

\* the sources Set appends to those of the options
DefaultSources ==
    <<[type |-> "EnvironmentVariableSource", filepath |-> <<>>],
      [type |-> "FlagSource", filepath |-> <<>>]>>

\* the test of Set for an active profile without filepath, left out
IncompatibleOptionsUnchecked(st) == FALSE

\* the test of Set for an active profile without filepath
IncompatibleOptions(st) == st.activeProfile # <<>> /\ st.filepath = <<>>

\* Set, after the options: the environment and flag sources are appended and
\* the active profile is turned into a file path.
SelectSources ==
    /\ pc = "options"
    /\ opts = <<>>
    /\ IF IncompatibleOptions(s)
       THEN /\ s' = [s EXCEPT !.sources = @ \o DefaultSources]
            /\ err' = Error("IncompatibleOptionsError", <<>>)
            /\ pc' = "done"
       ELSE /\ s' = [s EXCEPT !.sources = @ \o DefaultSources,
                              !.filepath = IF s.activeProfile # <<>>
                                           THEN SplitDir(@) \o s.activeProfile \o envExtension
                                           ELSE @]
            /\ err' = err
            /\ pc' = "load"
    /\ UNCHANGED <<fields, config, config0, opts0, arg, returned, fs, environ, environ0, filename, flagSet, opts, loaded,
                   defaultDecoders, stack>>

----------------------------------------------------------------------------
(* Set: one iteration of the loop over s.sources *)

NextSource == s.sources[loaded + 1]

\* a loop over s.sources that notes the error of Load and goes on
LoadFailedAndContinue(r) ==
    /\ err' = r.err
    /\ loaded' = loaded + 1
    /\ UNCHANGED <<s, pc>>

\* Load returned an error: Set returns it, with nothing copied
LoadFailed(r) ==
    /\ err' = r.err
    /\ pc' = "done"
    /\ UNCHANGED <<s, loaded>>

LoadFileSource ==
    /\ pc = "load"
    /\ loaded < Len(s.sources)
    /\ NextSource.type = "FileSource"
    /\ \E r \in {FileSourceLoad(fs, NextSource.filepath)} :
          IF ~IsNil(r.err)
          THEN LoadFailed(r)
          ELSE /\ s' = [s EXCEPT !.source = MapsCopy(@, r.source)]
               /\ loaded' = loaded + 1
               /\ UNCHANGED <<err, pc>>
    /\ UNCHANGED <<fields, config, config0, opts0, arg, returned, fs, environ, environ0, filename, flagSet, opts, defaultDecoders, stack>>

LoadEnvironmentVariableSource ==
    /\ pc = "load"
    /\ loaded < Len(s.sources)
    /\ NextSource.type = "EnvironmentVariableSource"
    /\ s' = [s EXCEPT !.source = MapsCopy(@, EnvironmentLoad(environ, 1, EmptyMap))]
    /\ loaded' = loaded + 1
    /\ UNCHANGED <<fields, config, config0, opts0, arg, returned, fs, environ, environ0, filename, flagSet, opts, defaultDecoders,
                   stack, err, pc>>

LoadFlagSource ==
    /\ pc = "load"
    /\ loaded < Len(s.sources)
    /\ NextSource.type = "FlagSource"
    /\ s' = [s EXCEPT !.source = MapsCopy(@, FlagSourceLoad(flagSet))]
    /\ loaded' = loaded + 1
    /\ UNCHANGED <<fields, config, config0, opts0, arg, returned, fs, environ, environ0, filename, flagSet, opts, defaultDecoders,
                   stack, err, pc>>

----------------------------------------------------------------------------
(* Set: populateStruct and populateNestedConfig.  A frame of the stack is   *)
(* one running loop over the fields of a struct: the struct's path, the     *)
(* index of the next field and the prefix the call was given.               *)

Frame(path, prefix) == [path |-> path, i |-> 1, prefix |-> prefix]

Top == stack[Len(stack)]

Advance(stk) == [stk EXCEPT ![Len(stk)].i = @ + 1]

\* populateStruct is entered: config is tested, and for a pointer to a struct
\* the loop starts with the empty prefix.  reflect's NumField panics for
\* anything but a struct.
populateStruct ==
    /\ pc = "load"
    /\ loaded = Len(s.sources)
    /\ IF InvalidConfigType(arg)
       THEN /\ err' = Error("InvalidConfigTypeError", arg)
            /\ pc' = "done"
            /\ UNCHANGED stack
       ELSE IF ElemKind(arg) # "Struct"
       THEN /\ pc' = "panic"
            /\ UNCHANGED <<stack, err>>
       ELSE /\ stack' = <<Frame(<<>>, <<>>)>>
            /\ pc' = "populate"
            /\ UNCHANGED err
    /\ UNCHANGED <<fields, config, config0, opts0, arg, returned, fs, environ, environ0, filename, flagSet, opts, s, loaded,
                   defaultDecoders>>

\* the field the running loop is at
CurrentPath == Append(Top.path, Top.i)

\* a loop that notes the error of the chain and goes on to the next field
ReturnErrorAndContinue(r) ==
    /\ config' = r.config
    /\ err' = r.err
    /\ stack' = Advance(stack)
    /\ UNCHANGED pc

\* the chain returned an error: the loop returns it, and so does every caller
\* up to Set
ReturnError(r) ==
    /\ config' = r.config
    /\ err' = r.err
    /\ pc' = "done"
    /\ UNCHANGED stack

\* one iteration of the loop of populateStruct or populateNestedConfig
HandleField ==
    /\ pc = "populate"
    /\ Top.i <= NumField(fields, Top.path)
    /\ IF ~FieldAt(fields, CurrentPath).exported
       THEN /\ stack' = Advance(stack)
            /\ UNCHANGED <<config, err, pc>>
       ELSE \E r \in {PrefixTagHandler(FieldAt(fields, CurrentPath), CurrentPath, fields,
                                        config, s, Top.prefix)} :
               IF r.nested
               THEN /\ stack' = Append(stack, Frame(CurrentPath, r.prefix))
                    /\ UNCHANGED <<config, err, pc>>
               ELSE IF ~IsNil(r.err)
               THEN ReturnError(r)
               ELSE /\ config' = r.config
                    /\ stack' = Advance(stack)
                    /\ UNCHANGED <<err, pc>>
    /\ UNCHANGED <<fields, config0, opts0, arg, returned, fs, environ, environ0, filename, flagSet, opts, s, loaded, defaultDecoders>>

\* populateNestedConfig has visited every field and returns nil to
\* PrefixTagHandler.Handle, which returns nil to the loop that called it.
ReturnNested ==
    /\ pc = "populate"
    /\ Top.i > NumField(fields, Top.path)
    /\ Len(stack) > 1
    /\ stack' = Advance(SubSeq(stack, 1, Len(stack) - 1))
    /\ UNCHANGED <<fields, config, config0, opts0, arg, returned, fs, environ, environ0, filename, flagSet, opts, s, loaded,
                   defaultDecoders, err, pc>>

\* populateStruct has visited every field: Set returns nil
ReturnSet ==
    /\ pc = "populate"
    /\ Top.i > NumField(fields, Top.path)
    /\ Len(stack) = 1
    /\ pc' = "done"
    /\ UNCHANGED <<fields, config, config0, opts0, arg, returned, fs, environ, environ0, filename, flagSet, opts, s, loaded,
                   defaultDecoders, stack, err>>

\* the options without those of one kind
RECURSIVE Without(_, _)
Without(os, option) ==
    IF os = <<>> THEN <<>>
    ELSE IF Head(os).option = option THEN Without(Tail(os), option)
    ELSE <<Head(os)>> \o Without(Tail(os), option)

\* the caller calls Set again on the same record, with the options of the
\* call before or with those but WithDecoders; files, environment and command
\* line are as they were.
SetAgain ==
    /\ pc = "done"
    /\ Len(returned) + 1 < MaxCalls
    /\ \E os \in {opts0, Without(opts0, "WithDecoders")} :
          /\ opts' = os
          /\ opts0' = os
    /\ returned' = Append(returned, [opts |-> opts0, err |-> err.type])
    /\ config0' = config
    /\ s' = NewSettings(defaultDecoders)
    /\ loaded' = 0
    /\ stack' = <<>>
    /\ err' = NoErr
    /\ pc' = "options"
    /\ UNCHANGED <<fields, config, arg, fs, environ, environ0, filename, flagSet, defaultDecoders>>

Next ==
    \/ WithFilepath
    \/ WithActiveProfile
    \/ WithPrefix
    \/ WithDecoders
    \/ SelectSources
    \/ LoadFileSource
    \/ LoadEnvironmentVariableSource
    \/ LoadFlagSource
    \/ populateStruct
    \/ HandleField
    \/ ReturnNested
    \/ ReturnSet
    \/ SetAgain

Spec == Init /\ [][Next]_vars

----------------------------------------------------------------------------
(* The environment-writing Set(filename, config): the file is written to   *)
(* the process environment line by line, then the record is populated from *)
(* the environment.  The record of the model is flat and has no envjson    *)
(* field, so handleJSONOption and handlePrefixOption have nothing to do.    *)

\* os.Getenv: the value of the key, the empty string when it is not set
Getenv(env, key) == Lookup(EnvironmentLoad(env, 1, EmptyMap), key)

\* an os.Setenv that leaves a key alone when the environment defines it
SetenvKeepsExisting(env, key, value) ==
    IF \E i \in 1..Len(env) : HasPrefix(env[i], key \o <<"=">>)
    THEN env
    ELSE Append(env, key \o <<"=">> \o value)

\* os.Setenv: the entry of the key is replaced, or added when there is none
Setenv(env, key, value) ==
    IF \E i \in 1..Len(env) : HasPrefix(env[i], key \o <<"=">>)
    THEN [i \in 1..Len(env) |->
             IF HasPrefix(env[i], key \o <<"=">>) THEN key \o <<"=">> \o value ELSE env[i]]
    ELSE Append(env, key \o <<"=">> \o value)

\* handleTextReplacement: as resolveReplacement, with os.Getenv as the lookup
handleTextReplacement(env, value) ==
    resolveLoop(EnvironmentLoad(env, 1, EmptyMap), value, FindStringSubmatch(value), 1)

\* fetchEnvironmentVariable: the value of the environment, and the default of
\* the field when that is empty
fetchEnvironmentVariable(env, environmentVariableKey, field) ==
    IF Getenv(env, environmentVariableKey) # <<>>
    THEN Getenv(env, environmentVariableKey)
    ELSE IF HasTag(field, "default") THEN field.tags.default
    ELSE <<>>

\* checkRequiredOption
checkRequiredOption(environmentVariableKey, field) ==
    IF ~HasTag(field, "required") THEN NoErr
    ELSE IF ParseBool(field.tags.required).ok /\ ParseBool(field.tags.required).val
    THEN Error("RequiredFieldError", environmentVariableKey)
    ELSE IF ~ParseBool(field.tags.required).ok
    THEN Error("InvalidOptionConversionError", environmentVariableKey)
    ELSE NoErr

\* setFieldValue of this Set: a type switch over the supported types
setFieldValueByType(cfg, path, entry, kind) ==
    IF kind \in {"int", "bool", "float64", "time.Duration"}
    THEN StoreDecoded(cfg, path, Decode(kind, entry.key, entry.value))
    ELSE setFieldValueSwitch(cfg, path, entry, kind)

\* the lines of the file, the variables of the environment and the filenames
\* Set is called with
EnvFileLines ==
    {<<"K", "=", "f">>,
     <<"R", "=", "r">>,
     <<"R", "=", "$", "{", "K", "}">>,
     <<"o", "o", "p", "s">>}

EnvVars == {<<"K", "=", "e">>, <<"R", "=", "q">>}

EnvFilenames ==
    {MainFile, <<>>, <<"d", "/", "c", ".", "t", "x", "t">>, <<"d", "/", "x", ".", "e", "n", "v">>}

InitEnv ==
    \E lines \in SeqsUpTo(EnvFileLines, MaxLongFile) :
    \E envs \in SubsetsUpTo(EnvVars, MaxEnvVars) :
    \E f \in EnvFilenames :
        /\ fields = FlatFields
        /\ config0 = [p \in LeafPaths(FlatFields, <<>>) |-> ZeroOf(FieldAt(FlatFields, p).kind)]
        /\ config = config0
        /\ fs = [g \in {MainFile} |-> lines]
        /\ environ = SetToSeq(envs)
        /\ environ0 = environ
        /\ filename = f
        /\ arg = "*struct"
        /\ returned = <<>>
        /\ flagSet = {}
        /\ opts = <<>>
        /\ opts0 = <<>>
        /\ defaultDecoders = builtinDecoders
        /\ s = NewSettings(builtinDecoders)
        /\ loaded = 0
        /\ stack = <<>>
        /\ err = NoErr
        /\ pc = "call"

\* Set is entered: a filename that is not empty must end in ".env" and name a
\* file that opens; without filename the file step is left out
EnvSet ==
    /\ pc = "call"
    /\ IF filename = <<>>
       THEN /\ pc' = "populateConfig"
            /\ UNCHANGED err
       ELSE IF Ext(filename) # envExtension
       THEN /\ err' = Error("FileTypeValidationError", filename)
            /\ pc' = "done"
       ELSE IF filename \notin DOMAIN fs
       THEN /\ err' = Error("OpenFileError", filename)
            /\ pc' = "done"
       ELSE /\ pc' = "file"
            /\ UNCHANGED err
    /\ UNCHANGED <<fields, config, config0, opts0, arg, returned, fs, environ, environ0, filename,
                   flagSet, opts, s, loaded, defaultDecoders, stack>>

\* the entry of a line is written to the environment, unless its value names
\* a variable that is empty or os.Setenv rejects the key
EnvStore(e, r) ==
    IF ~IsNil(r.err)
    THEN /\ err' = r.err
         /\ pc' = "done"
         /\ UNCHANGED <<environ, loaded>>
    ELSE IF e.key = <<>>
    THEN /\ err' = Error("SetEnvironmentVariableError", e.key)
         /\ pc' = "done"
         /\ UNCHANGED <<environ, loaded>>
    ELSE /\ environ' = Setenv(environ, e.key, r.value)
         /\ loaded' = loaded + 1
         /\ UNCHANGED <<err, pc>>

\* one iteration of the scanner loop of setEnvironmentVariables
EnvLine ==
    /\ pc = "file"
    /\ loaded < Len(fs[filename])
    /\ \E line \in {fs[filename][loaded + 1]} :
          IF line = <<>> \/ HasPrefix(line, <<"#">>)
          THEN /\ loaded' = loaded + 1
               /\ UNCHANGED <<environ, err, pc>>
          ELSE \E e \in {parseLine(line)} :
                  IF ~IsNil(e.err)
                  THEN /\ err' = e.err
                       /\ pc' = "done"
                       /\ UNCHANGED <<environ, loaded>>
                  ELSE EnvStore(e.entry, handleTextReplacement(environ, e.entry.value))
    /\ UNCHANGED <<fields, config, config0, opts0, arg, returned, fs, environ0, filename,
                   flagSet, opts, s, defaultDecoders, stack>>

\* the scanner is at the end of the file: setEnvironmentVariables returns nil
EnvFileEnd ==
    /\ pc = "file"
    /\ loaded = Len(fs[filename])
    /\ pc' = "populateConfig"
    /\ UNCHANGED <<fields, config, config0, opts0, arg, returned, fs, environ, environ0, filename,
                   flagSet, opts, s, loaded, defaultDecoders, stack, err>>

\* populateConfig is entered: config is tested, and the loop starts
EnvPopulateConfig ==
    /\ pc = "populateConfig"
    /\ IF InvalidConfigType(arg)
       THEN /\ err' = Error("InvalidConfigTypeError", arg)
            /\ pc' = "done"
            /\ UNCHANGED stack
       ELSE /\ stack' = <<Frame(<<>>, <<>>)>>
            /\ pc' = "populate"
            /\ UNCHANGED err
    /\ UNCHANGED <<fields, config, config0, opts0, arg, returned, fs, environ, environ0, filename,
                   flagSet, opts, s, loaded, defaultDecoders>>

\* the field has a value: setFieldValue stores it or fails
EnvAssign(r) ==
    IF ~IsNil(r.err)
    THEN /\ config' = r.config
         /\ err' = r.err
         /\ pc' = "done"
         /\ UNCHANGED stack
    ELSE /\ config' = r.config
         /\ stack' = Advance(stack)
         /\ UNCHANGED <<err, pc>>

\* the field has no value: it is passed over unless it is required
EnvMissing(e) ==
    IF ~IsNil(e)
    THEN /\ err' = e
         /\ pc' = "done"
         /\ UNCHANGED <<config, stack>>
    ELSE /\ stack' = Advance(stack)
         /\ UNCHANGED <<config, err, pc>>

\* one iteration of the loop of populateConfig
EnvField ==
    /\ pc = "populate"
    /\ Top.i <= NumField(fields, Top.path)
    /\ \E field \in {FieldAt(fields, CurrentPath)} :
          IF \/ ~field.exported
             \/ ~IsZero(fields, config, CurrentPath)
             \/ ~HasTag(field, "env")
          THEN /\ stack' = Advance(stack)
               /\ UNCHANGED <<config, err, pc>>
          ELSE \E v \in {fetchEnvironmentVariable(environ, field.tags.env, field)} :
                  IF v = <<>>
                  THEN EnvMissing(checkRequiredOption(field.tags.env, field))
                  ELSE EnvAssign(setFieldValueByType(config, CurrentPath,
                                                     [key |-> field.tags.env, value |-> v],
                                                     field.kind))
    /\ UNCHANGED <<fields, config0, opts0, arg, returned, fs, environ, environ0, filename,
                   flagSet, opts, s, loaded, defaultDecoders>>

\* populateConfig has visited every field: Set returns nil
EnvReturn ==
    /\ pc = "populate"
    /\ Top.i > NumField(fields, Top.path)
    /\ pc' = "done"
    /\ UNCHANGED <<fields, config, config0, opts0, arg, returned, fs, environ, environ0, filename,
                   flagSet, opts, s, loaded, defaultDecoders, stack, err>>

\* the process calls Set again, with any of the filenames and a fresh record;
\* the environment is the one the calls before have left
EnvSetAgain ==
    /\ pc = "done"
    /\ Len(returned) + 1 < MaxCalls
    /\ filename' \in EnvFilenames
    /\ returned' = Append(returned, [filename |-> filename, err |-> err.type, applied |-> loaded])
    /\ config' = [p \in DOMAIN config |-> ZeroOf(FieldAt(fields, p).kind)]
    /\ config0' = config'
    /\ environ0' = environ
    /\ loaded' = 0
    /\ stack' = <<>>
    /\ err' = NoErr
    /\ pc' = "call"
    /\ UNCHANGED <<fields, opts0, arg, fs, environ, flagSet, opts, s, defaultDecoders>>

NextEnv ==
    \/ EnvSet
    \/ EnvLine
    \/ EnvFileEnd
    \/ EnvPopulateConfig
    \/ EnvField
    \/ EnvReturn
    \/ EnvSetAgain

SpecEnv == InitEnv /\ [][NextEnv]_vars

----------------------------------------------------------------------------
(* Vocabulary of the properties *)

Done == pc = "done"

\* Set got as far as populateStruct
Populating == stack # <<>>

\* the field whose handling made Set fail
FailPath == CurrentPath

Failed == Done /\ Populating /\ ~IsNil(err)

Succeeded == Done /\ Populating /\ IsNil(err)

\* p comes before q in depth-first declaration order
RECURSIVE Before(_, _)
Before(p, q) ==
    /\ p # <<>>
    /\ q # <<>>
    /\ \/ p[1] < q[1]
       \/ p[1] = q[1] /\ Before(Tail(p), Tail(q))

\* Set returned after the traversal had come to the field at p
ReachedField(p) == Succeeded \/ (Failed /\ ~Before(FailPath, p))

\* Set returned after the traversal had gone past the field at p
PassedField(p) == Succeeded \/ (Failed /\ Before(p, FailPath))

Ancestors(p) == {SubSeq(p, 1, k) : k \in 1..(Len(p) - 1)}

\* the traversal descends to p: p and the structs around it are exported, and
\* every struct around it declares a prefix
Visited(p) ==
    /\ FieldAt(fields, p).exported
    /\ \A a \in Ancestors(p) : FieldAt(fields, a).exported /\ HasTag(FieldAt(fields, a), "prefix")

Leaves == DOMAIN config

\* the prefixes declared by the structs around p, outermost first
RECURSIVE PrefixesAround(_, _)
PrefixesAround(flds, p) ==
    IF Len(p) <= 1 THEN <<>>
    ELSE flds[p[1]].tags.prefix \o PrefixesAround(flds[p[1]].fields, Tail(p))

\* the key of a leaf tagged env: the prefixes around it, then its own key
KeyOf(p) == PrefixesAround(fields, p) \o FieldAt(fields, p).tags.env

EnvLeaves == {p \in Leaves : Visited(p) /\ HasTag(FieldAt(fields, p), "env")}

\* every match of textReplacementRegex in str, left to right
RECURSIVE AllMatches(_)
AllMatches(str) ==
    LET first == FindStringSubmatch(str)
    IN IF first = <<>> THEN <<>>
       ELSE <<first[1]>> \o
            AllMatches(Drop(str, Index(str, first[1]) - 1 + Len(first[1])))

Plain(str) == AllMatches(str) = <<>>

Range(f) == {f[x] : x \in DOMAIN f}

----------------------------------------------------------------------------
(* C1: precedence of the sources *)

FlagValue(k) == (CHOOSE f \in flagSet : f.name = k /\ f.actual).value

FlagHas(k) == \E f \in flagSet : f.name = k /\ f.actual

EnvHas(k) == \E i \in 1..Len(environ) : HasPrefix(environ[i], k \o <<"=">>)

EnvValue(k) ==
    LET i == CHOOSE j \in 1..Len(environ) : HasPrefix(environ[j], k \o <<"=">>)
    IN Drop(environ[i], Len(k) + 1)

FileEntries ==
    IF \E i \in 1..Len(s.sources) : s.sources[i].type = "FileSource"
    THEN LET i == CHOOSE j \in 1..Len(s.sources) : s.sources[j].type = "FileSource"
         IN FileSourceLoad(fs, s.sources[i].filepath).source
    ELSE EmptyMap

Precedence(k) ==
    IF FlagHas(k) THEN FlagValue(k)
    ELSE IF EnvHas(k) THEN EnvValue(k)
    ELSE FileEntries[k]

\* C1: once every source is merged, each key of the merged mapping holds the
\* flag value if the flag was set, else the environment value if there is one,
\* else the file value; and a string field, set by the built-in rule, whose
\* key holds a value without placeholders ends up with exactly that value.
C1_Precedence ==
    Populating =>
        /\ DOMAIN s.source =
              {f.name : f \in {g \in flagSet : g.actual}}
                 \cup {Cut(e, <<"=">>).before : e \in Range(environ)}
                 \cup DOMAIN FileEntries
        /\ \A k \in DOMAIN s.source : s.source[k] = Precedence(k)
        /\ \A p \in EnvLeaves :
              /\ Succeeded
              /\ FieldAt(fields, p).kind = "string"
              /\ "string" \notin DOMAIN s.decoders
              /\ KeyOf(p) \in DOMAIN s.source
              /\ Plain(Precedence(KeyOf(p)))
              => config[p] = Precedence(KeyOf(p))

\* C1 witness: one key is defined by the file, the environment and a set flag,
\* and the field it populates holds the flag's value.
C1_Witness ==
    /\ Succeeded
    /\ <<"K">> \in DOMAIN FileEntries
    /\ EnvHas(<<"K">>)
    /\ FlagHas(<<"K">>)
    /\ FileEntries[<<"K">>] # FlagValue(<<"K">>)
    /\ EnvValue(<<"K">>) # FlagValue(<<"K">>)
    /\ fields = FlatFields
    /\ config[<<1>>] = FlagValue(<<"K">>)

----------------------------------------------------------------------------
(* C2: fields that already hold a value *)

NonZero0(p) == config0[p] # ZeroOf(FieldAt(fields, p).kind)

\* C2 as claimed: a settable field that held a non-zero value when Set was
\* called holds the same value when Set has returned.
C2_PresetKept ==
    Done => \A p \in Leaves : Visited(p) /\ NonZero0(p) => config[p] = config0[p]

----------------------------------------------------------------------------
(* C3: required fields *)

RequiredMissing ==
    {p \in EnvLeaves :
        /\ HasTag(FieldAt(fields, p), "required")
        /\ FieldAt(fields, p).tags.required = <<"t", "r", "u", "e">>
        /\ ~HasTag(FieldAt(fields, p), "default")
        /\ ~NonZero0(p)
        /\ KeyOf(p) \notin DOMAIN s.source}

\* C3 as claimed: when the traversal comes to a zero-valued required field
\* without default whose key is missing from the merged mapping, Set returns
\* RequiredFieldError for that field and the fields after it are as they were.
C3_RequiredMissingFails ==
    \A p \in RequiredMissing :
        ReachedField(p) =>
            /\ err.type = "RequiredFieldError"
            /\ FailPath = p
            /\ \A q \in Leaves : Before(p, q) => config[q] = config0[q]

----------------------------------------------------------------------------
(* C4: defaults *)

\* the value of a Go type that a literal is coerced to
CoerceTo(kind, literal) ==
    CASE kind = "string" -> literal
      [] kind = "int" -> Atoi(literal).val
      [] kind = "int32" -> Atoi(literal).val
      [] kind = "bool" -> ParseBool(literal).val
      [] kind = "float64" -> ParseFloat(literal).val
      [] kind = "time.Duration" -> ParseDuration(literal).val

DefaultOnly ==
    {p \in EnvLeaves :
        /\ HasTag(FieldAt(fields, p), "default")
        /\ ~NonZero0(p)
        /\ KeyOf(p) \notin DOMAIN s.source}

\* C4: when Set returns nil, a zero-valued field tagged env and default whose
\* key is missing from the merged mapping holds its default literal, coerced
\* to the field's type.
C4_DefaultApplied ==
    Succeeded =>
        \A p \in DefaultOnly :
            config[p] = CoerceTo(FieldAt(fields, p).kind, FieldAt(fields, p).tags.default)

\* C4 witness: Set returned nil, no source defines N, and the int field
\* declared with default:"7" went from 0 to 7.
C4_Witness ==
    /\ Succeeded
    /\ fields = FlatFields
    /\ <<2>> \in DefaultOnly
    /\ config0[<<2>>] = 0
    /\ config[<<2>>] = 7
    /\ config[<<4>>] = <<"d">>

----------------------------------------------------------------------------
(* C5: nested prefixes *)

\* C5: every running loop over a nested struct was given the concatenation of
\* the prefixes declared around it, outermost first, and no more; and when Set
\* returns nil a string field, set by the built-in rule, whose key, so
\* prefixed, is in the merged mapping holds the value of exactly that key.
C5_PrefixComposition ==
    /\ \A k \in 1..Len(stack) :
          stack[k].prefix = PrefixesAround(fields, Append(stack[k].path, 1))
    /\ Succeeded =>
          \A p \in EnvLeaves :
              /\ FieldAt(fields, p).kind = "string"
              /\ "string" \notin DOMAIN s.decoders
              /\ KeyOf(p) \in DOMAIN s.source
              /\ Plain(s.source[KeyOf(p)])
              => config[p] = s.source[KeyOf(p)]

\* C5 witness: the leaf three structs deep took the value of A_B_C_D, and the
\* leaf visited after returning from the two inner structs took that of A_D.
C5_Witness ==
    /\ Succeeded
    /\ fields = NestedFields
    /\ <<"A", "_", "B", "_", "C", "_", "D">> \in DOMAIN s.source
    /\ <<"A", "_", "D">> \in DOMAIN s.source
    /\ config[<<1, 2, 1, 1>>] = s.source[<<"A", "_", "B", "_", "C", "_", "D">>]
    /\ config[<<1, 3>>] = s.source[<<"A", "_", "D">>]
    /\ config[<<1, 2, 1, 1>>] # config[<<1, 3>>]

----------------------------------------------------------------------------
(* C6: struct fields without a prefix *)

RECURSIVE StructPaths(_, _)
StructPaths(flds, base) ==
    UNION {IF flds[i].kind = "struct"
           THEN {Append(base, i)} \cup StructPaths(flds[i].fields, Append(base, i))
           ELSE {} : i \in 1..Len(flds)}

\* the struct fields the traversal comes to that declare neither prefix nor
\* envjson
BareStructs ==
    {p \in StructPaths(fields, <<>>) :
        /\ Visited(p)
        /\ ~HasTag(FieldAt(fields, p), "prefix")
        /\ ~HasTag(FieldAt(fields, p), "envjson")}

\* C6 as claimed: when the traversal comes to a struct field that declares
\* neither prefix nor envjson, Set returns PrefixOptionError naming the field.
C6_MissingPrefixFails ==
    \A p \in BareStructs :
        ReachedField(p) =>
            /\ err.type = "PrefixOptionError"
            /\ err.arg = FieldAt(fields, p).name

----------------------------------------------------------------------------
(* C7, C8: text replacement *)

NameOf(m) == SubSeq(m, 3, Len(m) - 1)

\* the names referenced by the placeholders of str
Referenced(str) == {NameOf(m) : m \in Range(AllMatches(str))}

Contains(str, sub) == Index(str, sub) # 0

\* the string leaves whose key holds a value with placeholders
TemplateLeaves ==
    {p \in EnvLeaves :
        /\ FieldAt(fields, p).kind = "string"
        /\ KeyOf(p) \in DOMAIN s.source
        /\ ~Plain(s.source[KeyOf(p)])}

\* C7 as claimed: when every name referenced by a field's raw value has a
\* non-empty value (here: one without placeholders of its own), no
\* placeholder of the raw value remains in the value assigned to the field.
C7_AllPlaceholdersReplaced ==
    \A p \in TemplateLeaves :
        /\ PassedField(p)
        /\ \A n \in Referenced(s.source[KeyOf(p)]) :
              Lookup(s.source, n) # <<>> /\ Plain(Lookup(s.source, n))
        => \A m \in Range(AllMatches(s.source[KeyOf(p)])) : ~Contains(config[p], m)

\* C8 as claimed: when the traversal comes to a field whose raw value
\* references a name that is missing from the merged mapping or empty in it,
\* Set returns ReplacementError for such a name and leaves the field alone.
C8_MissingNameFails ==
    \A p \in TemplateLeaves :
        /\ ReachedField(p)
        /\ \E n \in Referenced(s.source[KeyOf(p)]) : Lookup(s.source, n) = <<>>
        => /\ err.type = "ReplacementError"
           /\ FailPath = p
           /\ err.arg \in {n \in Referenced(s.source[KeyOf(p)]) : Lookup(s.source, n) = <<>>}
           /\ config[p] = config0[p]

----------------------------------------------------------------------------
(* C9: types without a coercion rule *)

CoercedKinds ==
    {"string", "int", "bool", "float64", "time.Duration", "[]string", "[]int", "[]float64"}

\* the leaves of a type without coercion rule or decoder whose key holds a
\* value that resolves
UnsupportedLeaves ==
    {p \in EnvLeaves :
        /\ FieldAt(fields, p).kind \notin CoercedKinds \cup SetterKinds \cup DOMAIN s.decoders
        /\ KeyOf(p) \in DOMAIN s.source
        /\ IsNil(resolveReplacement(s, s.source[KeyOf(p)]).err)}

\* C9: when the traversal comes to a field tagged env whose type has no
\* coercion rule and whose key holds a value, Set fails at that field with
\* UnsupportedFieldTypeError carrying the type, and the field is as it was.
C9_UnsupportedType ==
    \A p \in UnsupportedLeaves :
        ReachedField(p) =>
            /\ FailPath = p
            /\ err.type = "UnsupportedFieldTypeError"
            /\ err.arg = FieldAt(fields, p).kind
            /\ config[p] = config0[p]

\* C9 witness: the key of the int32 field is in the merged mapping and Set
\* returned UnsupportedFieldTypeError for int32 at that field.
C9_Witness ==
    /\ Failed
    /\ fields = TypedFields
    /\ <<4>> \in UnsupportedLeaves
    /\ FailPath = <<4>>
    /\ err.type = "UnsupportedFieldTypeError"
    /\ err.arg = "int32"

----------------------------------------------------------------------------
(* C10: slices *)

CommaPositions(str) == {i \in 1..Len(str) : str[i] = ","}

NumParts(str) == Cardinality(CommaPositions(str)) + 1

\* the i-th comma-separated part of str: what lies between the (i-1)-th and
\* the i-th comma
Part(str, i) ==
    LET bounds == CommaPositions(str) \cup {0, Len(str) + 1}
        lo == CHOOSE a \in bounds : Cardinality({b \in bounds : b < a}) = i - 1
        hi == CHOOSE a \in bounds : Cardinality({b \in bounds : b < a}) = i
    IN SubSeq(str, lo + 1, hi - 1)

ElementOf(kind, part) ==
    CASE kind = "[]string" -> part
      [] kind = "[]int" -> Atoi(part).val
      [] kind = "[]float64" -> ParseFloat(part).val

SliceLeaves ==
    {p \in EnvLeaves :
        /\ FieldAt(fields, p).kind \in {"[]string", "[]int", "[]float64"}
        /\ KeyOf(p) \in DOMAIN s.source
        /\ Plain(s.source[KeyOf(p)])}

\* C10: once the traversal has gone past a slice field whose key holds a
\* value, the field holds one element per comma-separated part of the value,
\* in order, each the parse of its part trimmed of surrounding white space.
C10_SliceElements ==
    \A p \in SliceLeaves :
        PassedField(p) =>
            LET raw == s.source[KeyOf(p)]
                kind == FieldAt(fields, p).kind
            IN /\ ~config[p].nil
               /\ Len(config[p].elems) = NumParts(raw)
               /\ \A i \in 1..NumParts(raw) :
                     config[p].elems[i] = ElementOf(kind, TrimSpace(Part(raw, i)))

\* C10 witness: a []string field took four elements, one of them empty, from
\* "a, b,,c " and a []int field took -4 and 5 from "-4,+5".
C10_Witness ==
    /\ Done
    /\ fields = TypedFields
    /\ {<<1>>, <<2>>} \subseteq SliceLeaves
    /\ PassedField(<<2>>)
    /\ config[<<1>>] = MakeSlice(<<<<"a">>, <<"b">>, <<>>, <<"c">>>>)
    /\ config[<<2>>] = MakeSlice(<<0 - 4, 5>>)

----------------------------------------------------------------------------
(* C11: the active profile *)

\* the argument of the last use of an option among those passed to Set
OptionArg(os, option) ==
    os[CHOOSE i \in 1..Len(os) :
          /\ os[i].option = option
          /\ \A j \in (i + 1)..Len(os) : os[j].option # option].arg

\* the file an active profile selects: <dir(p)>/<name>.env
ProfilePath(p, name) ==
    SplitDir(p) \o (IF name = <<>> THEN <<"d", "e", "f", "a", "u", "l", "t">> ELSE name)
                \o <<".", "e", "n", "v">>

ProfileGiven == Uses(opts0, "WithFilepath") /\ Uses(opts0, "WithActiveProfile")

SelectedFile ==
    ProfilePath(OptionArg(opts0, "WithFilepath"), OptionArg(opts0, "WithActiveProfile"))

\* C11 as claimed: with WithFilepath(p) and WithActiveProfile(name), once the
\* file source is loaded the merged mapping holds the entries of
\* <dir(p)>/<name>.env, and that file could be read.
C11_ProfileFileLoaded ==
    ProfileGiven /\ pc = "load" /\ loaded = 1 =>
        /\ IsNil(FileSourceLoad(fs, SelectedFile).err)
        /\ s.source = FileSourceLoad(fs, SelectedFile).source

----------------------------------------------------------------------------
(* C12: an active profile without filepath *)

ProfileWithoutFile == Uses(opts0, "WithActiveProfile") /\ ~Uses(opts0, "WithFilepath")

\* C12: with WithActiveProfile and no WithFilepath, Set returns
\* IncompatibleOptionsError as soon as the options are applied: no source is
\* loaded, the merged mapping is empty and the config record is as it was.
C12_ProfileNeedsFilepath ==
    ProfileWithoutFile /\ pc # "options" =>
        /\ Done
        /\ err.type = "IncompatibleOptionsError"
        /\ loaded = 0
        /\ s.source = EmptyMap
        /\ config = config0

\* C12 witness: Set returned IncompatibleOptionsError although the environment
\* and the command line had values to offer.
C12_Witness ==
    /\ Done
    /\ ProfileWithoutFile
    /\ err.type = "IncompatibleOptionsError"
    /\ environ # <<>>
    /\ \E f \in flagSet : f.actual
    /\ loaded = 0
    /\ config = config0

----------------------------------------------------------------------------
(* C13: the global prefix *)

PrefixGiven == Uses(opts0, "WithPrefix")

\* the key WithPrefix(P) makes a top-level field tagged env:K read: P + K
PrefixedKey(p) == OptionArg(opts0, "WithPrefix") \o FieldAt(fields, p).tags.env

TopStringLeaves == {p \in EnvLeaves : Len(p) = 1 /\ FieldAt(fields, p).kind = "string"}

\* C13 as claimed: when Set called with WithPrefix(P) returns nil, a top-level
\* string field tagged env:K holds the value of the key P+K of the merged
\* mapping, and a field without default whose key P+K is missing is as it was,
\* whatever the key K holds.
C13_GlobalPrefixApplied ==
    Succeeded /\ PrefixGiven =>
        \A p \in TopStringLeaves :
            /\ PrefixedKey(p) \in DOMAIN s.source /\ Plain(s.source[PrefixedKey(p)])
                  => config[p] = s.source[PrefixedKey(p)]
            /\ PrefixedKey(p) \notin DOMAIN s.source /\ ~HasTag(FieldAt(fields, p), "default")
                  => config[p] = config0[p]

----------------------------------------------------------------------------
(* C14: the extension of the file *)

GivenFile == OptionArg(opts0, "WithFilepath")

\* Set was given one file and has called Load on its source
FileSourceTried ==
    /\ Cardinality({i \in 1..Len(opts0) : opts0[i].option = "WithFilepath"}) = 1
    /\ loaded >= 1 \/ Done

\* C14: once Set has tried the file source, a path that does not end in ".env"
\* has made it return FileTypeValidationError naming the path, whether the
\* file exists or not; a path that ends in ".env" has gone to the env-file
\* parser, which fails with OpenFileError when the file does not exist and
\* otherwise reads its lines.
C14_ExtensionFirst ==
    FileSourceTried =>
        IF HasSuffix(GivenFile, <<".", "e", "n", "v">>)
        THEN /\ err.type # "FileTypeValidationError"
             /\ GivenFile \notin DOMAIN fs => loaded = 0 /\ err.type = "OpenFileError"
             /\ GivenFile \in DOMAIN fs /\ loaded = 0 => err.type = "ParseError"
        ELSE /\ Done
             /\ loaded = 0
             /\ err.type = "FileTypeValidationError"
             /\ err.arg = GivenFile

\* C14 witness: the path d/c.txt names no file, and Set returned
\* FileTypeValidationError for it.
C14_Witness ==
    /\ Done
    /\ Uses(opts0, "WithFilepath")
    /\ ~HasSuffix(GivenFile, <<".", "e", "n", "v">>)
    /\ GivenFile \notin DOMAIN fs
    /\ err.type = "FileTypeValidationError"
    /\ err.arg = GivenFile

----------------------------------------------------------------------------
(* C15: lines without separator *)

\* a line that is neither empty nor a comment and holds no "="
BadLine(l) == l # <<>> /\ Head(l) # "#" /\ \A i \in 1..Len(l) : l[i] # "="

BadLines(f) == {i \in 1..Len(fs[f]) : BadLine(fs[f][i])}

\* a line that defines a key
EntryLine(l) == l # <<>> /\ Head(l) # "#" /\ \E i \in 1..Len(l) : l[i] = "="

\* Set has tried to read a file, the one WithFilepath names, that has a line
\* without separator
BadFileTried ==
    /\ FileSourceTried
    /\ ~Uses(opts0, "WithActiveProfile")
    /\ GivenFile \in DOMAIN fs
    /\ BadLines(GivenFile) # {}

\* C15: once Set has tried a file with a line that is neither empty nor a
\* comment and holds no "=", it has returned ParseError carrying the first
\* such line; the reader's mapping is empty, so the merged mapping is empty and
\* the config record is as it was, whatever the lines before defined.
C15_ParseErrorNoPartialFile ==
    BadFileTried =>
        /\ Done
        /\ err.type = "ParseError"
        /\ err.arg = fs[GivenFile][Least(BadLines(GivenFile))]
        /\ FileSourceLoad(fs, GivenFile).source = EmptyMap
        /\ s.source = EmptyMap
        /\ config = config0

\* C15 witness: the second line of the file has no separator, the first
\* defines a key, and Set returned ParseError with nothing merged.
C15_Witness ==
    /\ BadFileTried
    /\ Done
    /\ Len(fs[GivenFile]) = 2
    /\ EntryLine(fs[GivenFile][1])
    /\ BadLine(fs[GivenFile][2])
    /\ err.type = "ParseError"
    /\ s.source = EmptyMap

----------------------------------------------------------------------------
(* C16: the first error ends the traversal, and nothing is rolled back *)

\* a step of the traversal leaves the fields before the current one alone,
\* and a step that meets an error is the last one
TraversalStep ==
    pc = "populate" =>
        /\ \A p \in Leaves : Before(p, CurrentPath) => config'[p] = config[p]
        /\ ~IsNil(err') => pc' = "done"

\* when Set has failed at a field, the fields after it are as they were
LaterFieldsUntouched ==
    Failed => \A q \in Leaves : Before(FailPath, q) => config[q] = config0[q]

\* C16: when the chain returns an error for a field, Set returns it at once;
\* the fields visited before keep the values they were assigned, and no field
\* after the failing one in depth-first declaration order is modified.
C16_FailFastNoRollback == [][TraversalStep]_vars /\ []LaterFieldsUntouched

\* C16 witness: Set failed at the int32 field; the []string field before it
\* holds the value assigned by this call, and the bool field after it is as it
\* was although its key is in the merged mapping.
C16_Witness ==
    /\ Failed
    /\ fields = TypedFields
    /\ FailPath = <<4>>
    /\ config[<<1>>] # config0[<<1>>]
    /\ KeyOf(<<5>>) \in DOMAIN s.source
    /\ config[<<5>>] = config0[<<5>>]

----------------------------------------------------------------------------
(* C17: what is passed as config *)

InvalidArg == arg # "*struct"

EarlierErrors ==
    {"IncompatibleOptionsError", "FileTypeValidationError", "OpenFileError", "ParseError"}

----------------------------------------------------------------------------
(* C18: what one call of Set leaves behind for the next *)

\* C18 as claimed: the package-level decoder table is never changed, and a
\* call of Set made without WithDecoders works with exactly the built-in
\* decoders, whatever calls came before.
C18_NoSharedState ==
    /\ defaultDecoders = builtinDecoders
    /\ ~Uses(opts0, "WithDecoders") => s.decoders = builtinDecoders

----------------------------------------------------------------------------
(* C19: flags that were not set *)

\* every source of the call has been loaded and merged
SourcesMerged == pc # "options" /\ loaded = Len(s.sources)

UnsetFlags == {f \in flagSet : ~f.actual /\ ~FlagHas(f.name)}

\* C19: the flag source yields exactly the flags that were set, with their
\* values; once the sources are merged, the key of a defined flag that was not
\* set is in the merged mapping only if the environment or the file defines
\* it, and holds their value, never the flag's default.
C19_OnlySetFlags ==
    /\ DOMAIN FlagSourceLoad(flagSet) = {f.name : f \in {g \in flagSet : g.actual}}
    /\ \A f \in flagSet : f.actual => FlagSourceLoad(flagSet)[f.name] = f.value
    /\ SourcesMerged =>
          \A f \in UnsetFlags :
              IF EnvHas(f.name) THEN s.source[f.name] = EnvValue(f.name)
              ELSE IF f.name \in DOMAIN FileEntries THEN s.source[f.name] = FileEntries[f.name]
              ELSE f.name \notin DOMAIN s.source

\* C19 witness: the flag K is defined with a default but was not set, the
\* environment defines K, and the field read from K took the environment's
\* value, which differs from the flag's default.
C19_Witness ==
    /\ Succeeded
    /\ fields = FlatFields
    /\ EnvHas(<<"K">>)
    /\ \E f \in UnsetFlags : f.name = <<"K">> /\ f.value # EnvValue(<<"K">>)
    /\ config[<<1>>] = EnvValue(<<"K">>)

----------------------------------------------------------------------------
(* C20: calling Set twice *)

\* the call before this one returned nil and had the same options
RepeatedCall ==
    /\ returned # <<>>
    /\ returned[Len(returned)].err = "nil"
    /\ returned[Len(returned)].opts = opts0

\* C20: when Set is called again with the same options on the record a
\* successful call has produced, files, environment and command line being as
\* they were, it returns nil and every field holds the value it held after
\* the call before.
C20_Idempotent ==
    RepeatedCall /\ Done => IsNil(err) /\ config = config0

\* C20 witness: the second call returned nil on a record whose fields the
\* first call had filled from a source, from a default and by decoding, and
\* left them as they were.
C20_Witness ==
    /\ RepeatedCall
    /\ Succeeded
    /\ fields = FlatFields
    /\ KeyOf(<<1>>) \in DOMAIN s.source
    /\ config[<<1>>] = s.source[KeyOf(<<1>>)]
    /\ KeyOf(<<2>>) \notin DOMAIN s.source
    /\ config[<<2>>] = 7
    /\ config = config0

----------------------------------------------------------------------------
(* C21: a default and a key that is present *)

\* the literal coerces to the scalar Go type
Coerces(kind, literal) ==
    CASE kind = "string" -> TRUE
      [] kind = "int" -> Atoi(literal).ok
      [] kind = "bool" -> ParseBool(literal).ok
      [] kind = "float64" -> ParseFloat(literal).ok
      [] kind = "time.Duration" -> ParseDuration(literal).ok
      [] OTHER -> FALSE

\* the zero-valued leaves that declare a default and whose key holds a value
\* that is not empty, has no placeholder and coerces to the field's type
DefaultAndPresent ==
    {p \in EnvLeaves :
        /\ HasTag(FieldAt(fields, p), "default")
        /\ ~NonZero0(p)
        /\ KeyOf(p) \in DOMAIN s.source
        /\ s.source[KeyOf(p)] # <<>>
        /\ Plain(s.source[KeyOf(p)])
        /\ Coerces(FieldAt(fields, p).kind, s.source[KeyOf(p)])}

\* C21 as claimed: when Set returns nil, a field that declares a default and
\* whose key is present in the merged mapping holds the coerced mapping
\* value, also when that value is the zero value of the field's type; the
\* default literal is not applied.
C21_DefaultOnlyWhenAbsent ==
    Succeeded =>
        \A p \in DefaultAndPresent :
            config[p] = CoerceTo(FieldAt(fields, p).kind, s.source[KeyOf(p)])

----------------------------------------------------------------------------
(* C22: a key that holds the empty string *)

\* the zero-valued leaves of a supported type, not tagged required, whose
\* key holds the empty string
EmptyValued ==
    {p \in EnvLeaves :
        /\ FieldAt(fields, p).kind \in CoercedKinds
        /\ ~HasTag(FieldAt(fields, p), "required")
        /\ ~NonZero0(p)
        /\ KeyOf(p) \in DOMAIN s.source
        /\ s.source[KeyOf(p)] = <<>>}

\* C22 as claimed: a key that holds the empty string is treated like a key
\* that is absent.  Handling the field does not fail, and once the traversal
\* is past it the field holds its default if it declares one and is as it
\* was before the call otherwise.
C22_EmptyLikeAbsent ==
    \A p \in EmptyValued :
        /\ ReachedField(p) => ~(Failed /\ FailPath = p)
        /\ PassedField(p) =>
              config[p] = IF HasTag(FieldAt(fields, p), "default")
                          THEN CoerceTo(FieldAt(fields, p).kind, FieldAt(fields, p).tags.default)
                          ELSE config0[p]

----------------------------------------------------------------------------
(* C23: the values the file reader stores *)

\* Set has just merged the file source, the first of s.sources, into the
\* empty mapping: s.source is the mapping the file reader returned
FileJustRead ==
    /\ pc = "load"
    /\ loaded = 1
    /\ s.sources[1].type = "FileSource"

\* C23 as claimed: every value the file reader stores is free of leading and
\* trailing whitespace and of an inline comment (no " #" is left in it).
C23_FileValuesClean ==
    FileJustRead =>
        \A k \in DOMAIN s.source :
            /\ TrimSpace(s.source[k]) = s.source[k]
            /\ ~Contains(s.source[k], <<" ", "#">>)

----------------------------------------------------------------------------
(* C24: numeric slices with an element that does not parse *)

\* some comma-separated part of str, trimmed, is not a number of the slice's
\* element type
BadElement(kind, str) ==
    \E i \in 1..NumParts(str) :
        IF kind = "[]int"
        THEN ~Atoi(TrimSpace(Part(str, i))).ok
        ELSE ~ParseFloat(TrimSpace(Part(str, i))).ok

\* the []int and []float64 leaves whose key holds a value with such a part
BadSliceLeaves ==
    {p \in SliceLeaves :
        /\ FieldAt(fields, p).kind \in {"[]int", "[]float64"}
        /\ BadElement(FieldAt(fields, p).kind, s.source[KeyOf(p)])}

\* C24: once the traversal has come to a []int or []float64 field whose value
\* has a part that does not parse, an empty part included, Set has returned
\* FieldConversionError for that field with the slice type as TargetType, and
\* the field holds the value it had before the call.
C24_NoPartialSlice ==
    \A p \in BadSliceLeaves :
        ReachedField(p) =>
            /\ Failed
            /\ FailPath = p
            /\ err.type = "FieldConversionError"
            /\ err.arg.FieldName = KeyOf(p)
            /\ err.arg.TargetType = FieldAt(fields, p).kind
            /\ config[p] = config0[p]

\* C24 witness: "1,,2" made Set fail at the []int field and "1," at the
\* []float64 field, each left nil as before the call.
C24_Witness ==
    /\ Failed
    /\ fields = TypedFields
    /\ FailPath \in BadSliceLeaves
    /\ \/ FailPath = <<2>> /\ s.source[<<"I", "S">>] = <<"1", ",", ",", "2">>
       \/ FailPath = <<3>> /\ s.source[<<"F", "S">>] = <<"1", ",">>
    /\ err.type = "FieldConversionError"
    /\ config[FailPath] = NilSlice

----------------------------------------------------------------------------
(* C25: text replacement is not recursive *)

\* the string leaves whose value holds exactly one placeholder, the name of
\* which is mapped to a value that holds a placeholder itself
NestedTemplateLeaves ==
    {p \in EnvLeaves :
        /\ FieldAt(fields, p).kind = "string"
        /\ KeyOf(p) \in DOMAIN s.source
        /\ Len(AllMatches(s.source[KeyOf(p)])) = 1
        /\ ~Plain(Lookup(s.source, NameOf(AllMatches(s.source[KeyOf(p)])[1])))}

\* C25: once the traversal has come to such a field, handling it has not
\* failed, and once past it the field holds its value with the placeholder
\* replaced by the mapped value as it stands: the placeholder inside the
\* mapped value is copied, and is neither looked up nor reported.
C25_NotRecursive ==
    \A p \in NestedTemplateLeaves :
        LET raw == s.source[KeyOf(p)]
            m == AllMatches(raw)[1]
        IN /\ ReachedField(p) => ~(Failed /\ FailPath = p)
           /\ PassedField(p) =>
                 /\ config[p] = ReplaceAll(raw, m, s.source[NameOf(m)])
                 /\ ~Plain(config[p])

\* C25 witness: the file holds Z=${A}, the flag A is set to ${B}, B is not
\* defined anywhere, and Set returned nil with the field holding ${B}.
C25_Witness ==
    /\ Succeeded
    /\ fields = TemplFields
    /\ <<2>> \in NestedTemplateLeaves
    /\ s.source[<<"Z">>] = <<"$", "{", "A", "}">>
    /\ s.source[<<"A">>] = <<"$", "{", "B", "}">>
    /\ <<"B">> \notin DOMAIN s.source
    /\ config[<<2>>] = <<"$", "{", "B", "}">>

----------------------------------------------------------------------------
(* C26: placeholders are resolved in the merged mapping *)

\* the string leaves whose value holds exactly one placeholder, the name of
\* which some source defines with a value that is not empty
ResolvableLeaves ==
    {p \in EnvLeaves :
        /\ FieldAt(fields, p).kind = "string"
        /\ KeyOf(p) \in DOMAIN s.source
        /\ Len(AllMatches(s.source[KeyOf(p)])) = 1
        /\ NameOf(AllMatches(s.source[KeyOf(p)])[1]) \in DOMAIN s.source
        /\ Precedence(NameOf(AllMatches(s.source[KeyOf(p)])[1])) # <<>>}

\* C26: once the traversal is past such a field, the field holds its value
\* with the placeholder replaced by the value of the name in the source that
\* wins precedence (flag, else environment, else file, whatever the line of
\* the file), wherever the value of the field itself came from.
C26_ResolvedInMergedMapping ==
    \A p \in ResolvableLeaves :
        PassedField(p) =>
            config[p] = ReplaceAll(s.source[KeyOf(p)],
                                   AllMatches(s.source[KeyOf(p)])[1],
                                   Precedence(NameOf(AllMatches(s.source[KeyOf(p)])[1])))

\* C26 witness: the file holds Z=${A} and, on the line after it, A=f; the
\* environment holds A=a; Set returned nil and the field holds a.
C26_Witness ==
    /\ Succeeded
    /\ fields = TemplFields
    /\ <<2>> \in ResolvableLeaves
    /\ fs[MainFile] = <<<<"Z", "=", "$", "{", "A", "}">>, <<"A", "=", "f">>>>
    /\ FileEntries[<<"A">>] = <<"f">>
    /\ EnvHas(<<"A">>)
    /\ EnvValue(<<"A">>) = <<"a">>
    /\ ~FlagHas(<<"A">>)
    /\ config[<<2>>] = <<"a">>

----------------------------------------------------------------------------
(* C29: every source is loaded before a field is touched *)

\* the errors of FileSource.Load
LoadErrors == {"FileTypeValidationError", "OpenFileError", "ParseError"}

\* Set returned the error of a source that failed to load
LoadFailure == Done /\ ~Populating /\ err.type \in LoadErrors

----------------------------------------------------------------------------
(* C30: the order of the coercion rules *)

\* the decoder in effect for a type in the first call of the process: the
\* one the caller passed with WithDecoders, else the default one, else none
DecoderFor(kind) ==
    IF Uses(opts0, "WithDecoders") /\ kind \in Range(OptionArg(opts0, "WithDecoders"))
    THEN CallerDecoders(OptionArg(opts0, "WithDecoders"))[kind]
    ELSE IF kind \in DOMAIN builtinDecoders THEN builtinDecoders[kind]
    ELSE "none"

SwitchKinds == {"string", "[]string", "[]int", "[]float64"}

\* the zero-valued leaves without default whose key holds a value without
\* placeholders, in the first call of the process
DispatchedLeaves ==
    {p \in EnvLeaves :
        /\ returned = <<>>
        /\ ~HasTag(FieldAt(fields, p), "default")
        /\ ~NonZero0(p)
        /\ KeyOf(p) \in DOMAIN s.source
        /\ Plain(s.source[KeyOf(p)])}

\* Set failed at p with an error of the type
FailedAt(p, type) == Failed /\ FailPath = p /\ err.type = type

\* what the claim says of one leaf of the kind whose key holds the value
DispatchedAs(p, kind, value) ==
    IF kind \in SetterKinds
    THEN IF Atoi(value).ok
         THEN /\ ReachedField(p) => ~(Failed /\ FailPath = p)
              /\ PassedField(p) => config[p] = Atoi(value).val
         ELSE ReachedField(p) => FailedAt(p, "LevelError") /\ config[p] = config0[p]
    ELSE IF DecoderFor(kind) # "none"
    THEN IF IsNil(Decode(DecoderFor(kind), KeyOf(p), value).err)
         THEN /\ ReachedField(p) => ~(Failed /\ FailPath = p)
              /\ PassedField(p) => config[p] = Decode(DecoderFor(kind), KeyOf(p), value).val
         ELSE ReachedField(p) =>
                 FailedAt(p, Decode(DecoderFor(kind), KeyOf(p), value).err.type)
    ELSE IF kind \in SwitchKinds
    THEN /\ ~FailedAt(p, "UnsupportedFieldTypeError")
         /\ kind = "string" /\ PassedField(p) => config[p] = value
    ELSE ReachedField(p) => FailedAt(p, "UnsupportedFieldTypeError")

\* C30: a field whose pointer implements Setter is set by its Set method,
\* whatever decoders are registered; any other field is set by the decoder
\* registered for its type, the one passed with WithDecoders before the
\* default one; a field without decoder is set by the built-in string and
\* slice rules; and Set returns UnsupportedFieldTypeError for a field exactly
\* when none of the three applies.
C30_DispatchOrder ==
    \A p \in DispatchedLeaves :
        DispatchedAs(p, FieldAt(fields, p).kind, s.source[KeyOf(p)])

\* C30 witness: with decoders passed for Level and string, the Level field
\* took 12 from its own Set method, not the 2 of the decoder, and the string
\* field took what the caller's decoder returned.
C30_Witness ==
    /\ Succeeded
    /\ returned = <<>>
    /\ fields = CustomFields
    /\ Uses(opts0, "WithDecoders")
    /\ OptionArg(opts0, "WithDecoders") = <<"Level", "string">>
    /\ {<<1>>, <<3>>} \subseteq DispatchedLeaves
    /\ s.source[<<"L">>] = <<"1", "2">>
    /\ config[<<1>>] = 12
    /\ config[<<3>>] = <<"K">>

----------------------------------------------------------------------------
(* C27: what the environment-writing Set leaves in the environment *)

\* the lines among the first n of the file that define the key
DefiningLines(f, n, k) ==
    {i \in 1..n : EntryLine(fs[f][i]) /\ parseLine(fs[f][i]).entry.key = k}

\* the keys the first n lines of the file define
AppliedKeys(f, n) ==
    {parseLine(fs[f][i]).entry.key : i \in {j \in 1..n : EntryLine(fs[f][j])}}

\* the value the last of these lines gives the key
AppliedValue(f, n, k) == parseLine(fs[f][Greatest(DefiningLines(f, n, k))]).entry.value

\* the environment holds every key of the first n lines of the file, with
\* the value of the file (values with placeholders aside)
WrittenAndKept(f, n) ==
    \A k \in AppliedKeys(f, n) :
        Plain(AppliedValue(f, n, k)) => Getenv(environ, k) = AppliedValue(f, n, k)

\* an earlier call read the file and no call since then, the running one
\* included, has read a file
LeftBehindBy(c) ==
    /\ returned[c].filename \in DOMAIN fs
    /\ \A d \in (c + 1)..Len(returned) : returned[d].filename \notin DOMAIN fs
    /\ filename \notin DOMAIN fs

\* C27: the entries of the lines that Set has read are in the process
\* environment, during the call and after it has returned, with or without
\* error; they are still there in a later call that reads no file, and when
\* that call returns nil its string fields hold the values the file gave
\* their keys.
C27_EnvironmentKeepsFileValues ==
    /\ filename \in DOMAIN fs => WrittenAndKept(filename, loaded)
    /\ \A c \in 1..Len(returned) :
          LeftBehindBy(c) =>
             /\ WrittenAndKept(returned[c].filename, returned[c].applied)
             /\ Succeeded =>
                   \A p \in Leaves :
                       /\ FieldAt(fields, p).kind = "string"
                       /\ HasTag(FieldAt(fields, p), "env")
                       /\ FieldAt(fields, p).tags.env \in
                             AppliedKeys(returned[c].filename, returned[c].applied)
                       /\ Plain(AppliedValue(returned[c].filename, returned[c].applied,
                                             FieldAt(fields, p).tags.env))
                       /\ AppliedValue(returned[c].filename, returned[c].applied,
                                       FieldAt(fields, p).tags.env) # <<>>
                       => config[p] = AppliedValue(returned[c].filename, returned[c].applied,
                                                   FieldAt(fields, p).tags.env)

\* C27 witness: the first call read K=f, failed at the next line and returned
\* ParseError; the second call, without file, returned nil with the field
\* read from K holding f.
C27_Witness ==
    /\ Succeeded
    /\ Len(returned) = 1
    /\ returned[1].filename = MainFile
    /\ returned[1].err = "ParseError"
    /\ returned[1].applied = 1
    /\ fs[MainFile][1] = <<"K", "=", "f">>
    /\ filename = <<>>
    /\ Getenv(environ, <<"K">>) = <<"f">>
    /\ config[<<1>>] = <<"f">>

----------------------------------------------------------------------------
(* C28: a variable the environment already holds *)

\* C28 as claimed: a key that the process environment holds, with a value
\* that is not empty, when Set is called keeps that value whatever the file
\* says, and when Set returns nil the string field read from it holds it.
C28_ExistingValueWins ==
    \A k \in DOMAIN EnvironmentLoad(environ0, 1, EmptyMap) :
        Getenv(environ0, k) # <<>> =>
            /\ Getenv(environ, k) = Getenv(environ0, k)
            /\ Succeeded =>
                  \A p \in Leaves :
                      /\ FieldAt(fields, p).kind = "string"
                      /\ HasTag(FieldAt(fields, p), "env")
                      /\ FieldAt(fields, p).tags.env = k
                      => config[p] = Getenv(environ0, k)

====
